---- MODULE Spec2Model ----
(***************************************************************************)
(* Model of the cube scanner of RUBIQ_SOLVER: the per-frame scanner loop   *)
(* (useScannerLoop.processFrame), the frame voting buffer, the face        *)
(* validator, the cross-face correction and the cube store.                *)
(*                                                                         *)
(* Conventions.  Sequences are 1-based: position i of the source (0..8)    *)
(* is position i+1 here, so the centre sticker (index 4) is element 5.     *)
(* null is the empty sequence for every value that is an array or a string *)
(* in the source (colours, stickers, corners, kociembaString).             *)
(* A sticker is [color, rgb]: rgb stands for the measured rgb/hsv pair.    *)
(* console output and debugTimerRef (used for logging only) are left out.  *)
(***************************************************************************)
EXTENDS Integers, Sequences, FiniteSets, TLC

VARIABLES
    now,                \* Date.now() of the last processed frame
    lastCornersRef,     \* previous frame's quad, or Null
    stableStartRef,     \* start of the stability clock
    cooldownRef,        \* no capture until now > cooldownRef
    votingBufferRef,    \* the FrameVotingBuffer object
    lockedCornersRef,   \* locked quad, or Null
    lockFailCountRef,   \* consecutive failed extractions at the locked quad
    lastFrameColorsRef, \* colours of the last sampled frame, or Null
    rafRef,             \* TRUE while a frame callback is requested
    mats,               \* native handles (Mat, MatVector) not yet deleted; kept
                        \* track of by SpecFrame only
    scannerStore,       \* useScannerStore state
    cubeStore,          \* useCubeStore state
    solverStore,        \* useSolverStore state
    solver,             \* lib/solver.ts: initialized, skipOptimizationFlag and
                        \* the solveCubeAsync calls in progress
    player,             \* SolverScreen's playingRef and RubiksCube's rotationRef
    camera,             \* useCamera's refs and state, its start() calls and streams
    obs                 \* record of the last operation: its inputs and results

vars == <<now, lastCornersRef, stableStartRef, cooldownRef, votingBufferRef,
          lockedCornersRef, lockFailCountRef, lastFrameColorsRef, rafRef, mats,
          scannerStore, cubeStore, solverStore, solver, player, camera, obs>>

scanRefs == <<now, lastCornersRef, stableStartRef, cooldownRef, rafRef, mats,
              lockedCornersRef, lockFailCountRef, lastFrameColorsRef, scannerStore,
              solverStore, solver, player, camera>>

Null == <<>>

\* CubeColor, in the key order of the count literals { R, O, Y, G, B, W }
ColorOrder == <<"R", "O", "Y", "G", "B", "W">>

Colors == {"R", "O", "Y", "G", "B", "W"}

FaceNames == {"U", "R", "F", "D", "L", "B"}

KOCIEMBA_FACE_ORDER == <<"U", "R", "F", "D", "L", "B">>

DEFAULT_CENTER_MAP == [c \in Colors |->
    CASE c = "W" -> "U" [] c = "Y" -> "D" [] c = "R" -> "F"
      [] c = "O" -> "B" [] c = "B" -> "R" [] c = "G" -> "L"]

STABILITY_THRESHOLD_MS == 1000

STABILITY_POSITION_TOLERANCE == 20

COOLDOWN_MS == 1500

LOCK_FAIL_THRESHOLD == 4

\* stickers.length === 9
FaceSize == 9

\* stickers[4], the centre sticker
Center == 5

\* this.buffer.length < 5
MinFrames == 5

\* isStable: ms >= 500
StoreStableMs == 500

\* color-shift rule: changed >= 3
ShiftLimit == 3

\* Math.ceil(a / b) for a >= 0, b > 0
CeilDiv(a, b) == (a + b - 1) \div b

ColorsOf(stickers) == [i \in 1..Len(stickers) |-> stickers[i].color]

\* a sticker array with the given colours; sticker i carries sample i
Stickers(colors) == [i \in 1..Len(colors) |-> [color |-> colors[i], rgb |-> i]]

(***************************************************************************)
(* FrameVotingBuffer                                                       *)
(***************************************************************************)

\* consensusThreshold is a double in the source; it is kept as the fraction
\* num/den it is written as (0.6, 0.7, 5/6): for these and every buffer
\* length up to 16 Math.ceil(length * threshold) in doubles equals the
\* exact ceiling.
NewFrameVotingBuffer(maxFrames, num, den) ==
    [buffer |-> <<>>, maxFrames |-> maxFrames,
     consensusThreshold |-> [num |-> num, den |-> den]]

\* counts[frame[i]]++ over the buffer, for one colour
VoteCount(buffer, i, c) == Cardinality({k \in 1..Len(buffer) : buffer[k][i] = c})

\* the loop over Object.entries(counts): a strictly larger count replaces the best
RECURSIVE BestVote(_, _, _, _, _)
BestVote(buffer, i, k, bestColor, bestCount) ==
    IF k > Len(ColorOrder) THEN [color |-> bestColor, count |-> bestCount]
    ELSE LET count == VoteCount(buffer, i, ColorOrder[k])
         IN IF count > bestCount
            THEN BestVote(buffer, i, k + 1, ColorOrder[k], count)
            ELSE BestVote(buffer, i, k + 1, bestColor, bestCount)

ConsensusThresholdFloor(fvb) ==
    (Len(fvb.buffer) * fvb.consensusThreshold.num) \div fvb.consensusThreshold.den

ConsensusThreshold(fvb) ==
    CeilDiv(Len(fvb.buffer) * fvb.consensusThreshold.num, fvb.consensusThreshold.den)

getConsensus(fvb) ==
    LET threshold == ConsensusThreshold(fvb)
        best == [i \in 1..FaceSize |-> BestVote(fvb.buffer, i, 1, "W", 0)]
    IN IF \E i \in 1..FaceSize : best[i].count < threshold
       THEN Null
       ELSE [i \in 1..FaceSize |-> best[i].color]

\* mutant: the minimum buffer fill is not checked
addFrameNoMinFill(fvb, colors) ==
    IF Len(colors) # FaceSize THEN [fvb |-> fvb, ret |-> Null]
    ELSE LET pushed == Append(fvb.buffer, colors)
             buf == IF Len(pushed) > fvb.maxFrames THEN Tail(pushed) ELSE pushed
             next == [fvb EXCEPT !.buffer = buf]
         IN [fvb |-> next, ret |-> getConsensus(next)]

\* mutant: a full buffer drops the newest frame instead of the oldest
addFrameDropNewest(fvb, colors) ==
    IF Len(colors) # FaceSize THEN [fvb |-> fvb, ret |-> Null]
    ELSE LET pushed == Append(fvb.buffer, colors)
             buf == IF Len(pushed) > fvb.maxFrames
                    THEN SubSeq(pushed, 1, Len(pushed) - 1) ELSE pushed
             next == [fvb EXCEPT !.buffer = buf]
         IN [fvb |-> next,
             ret |-> IF Len(buf) < MinFrames THEN Null ELSE getConsensus(next)]

\* addFrame: the buffer after the call and the value returned
addFrame(fvb, colors) ==
    IF Len(colors) # FaceSize THEN [fvb |-> fvb, ret |-> Null]
    ELSE LET pushed == Append(fvb.buffer, colors)
             buf == IF Len(pushed) > fvb.maxFrames THEN Tail(pushed) ELSE pushed
             next == [fvb EXCEPT !.buffer = buf]
         IN [fvb |-> next,
             ret |-> IF Len(buf) < MinFrames THEN Null ELSE getConsensus(next)]

resetBuffer(fvb) == [fvb EXCEPT !.buffer = <<>>]

(***************************************************************************)
(* validateFaceColors                                                      *)
(***************************************************************************)

CountColor(stickers, c) == Cardinality({i \in 1..Len(stickers) : stickers[i].color = c})

\* Object.keys(colorCounts): the colours that occur
ColorKeys(stickers) == {stickers[i].color : i \in 1..Len(stickers)}

\* mutant: the centre colour is held to the limit of 5 as well
validateFaceColorsNoCenterExemption(stickers) ==
    IF Len(stickers) # FaceSize THEN [valid |-> FALSE, reason |-> "Not 9 stickers"]
    ELSE LET centerColor == stickers[Center].color
         IN IF Cardinality(ColorKeys(stickers)) = 1 /\ centerColor # "W"
            THEN [valid |-> FALSE, reason |-> "All same color (not white)"]
            ELSE IF \E c \in ColorKeys(stickers) : CountColor(stickers, c) > 5
            THEN [valid |-> FALSE, reason |-> "Too many"]
            ELSE IF centerColor # "W" /\ CountColor(stickers, "W") > 4
            THEN [valid |-> FALSE, reason |-> "Too much white on colored face"]
            ELSE [valid |-> TRUE, reason |-> ""]

validateFaceColors(stickers) ==
    IF Len(stickers) # FaceSize THEN [valid |-> FALSE, reason |-> "Not 9 stickers"]
    ELSE LET centerColor == stickers[Center].color
         IN IF Cardinality(ColorKeys(stickers)) = 1 /\ centerColor # "W"
            THEN [valid |-> FALSE, reason |-> "All same color (not white)"]
            ELSE IF \E c \in ColorKeys(stickers) :
                        c # centerColor /\ CountColor(stickers, c) > 5
            THEN [valid |-> FALSE, reason |-> "Too many"]
            ELSE IF centerColor # "W" /\ CountColor(stickers, "W") > 4
            THEN [valid |-> FALSE, reason |-> "Too much white on colored face"]
            ELSE [valid |-> TRUE, reason |-> ""]

(***************************************************************************)
(* centerAnchoredCorrection                                                *)
(***************************************************************************)

\* a colour is over-counted above 9 and under-counted below 9
PerColor == 9

RECURSIVE SumFaces(_, _, _)
SumFaces(scannedFaces, k, c) ==
    IF k > Len(KOCIEMBA_FACE_ORDER) THEN 0
    ELSE (IF KOCIEMBA_FACE_ORDER[k] \in DOMAIN scannedFaces
          THEN CountColor(scannedFaces[KOCIEMBA_FACE_ORDER[k]].stickers, c) ELSE 0)
         + SumFaces(scannedFaces, k + 1, c)

\* globalCounts: the tally over the scanned faces plus the candidate
GlobalCounts(stickers, scannedFaces) ==
    [c \in Colors |-> SumFaces(scannedFaces, 1, c) + CountColor(stickers, c)]

\* confusable.find(...): the pair in either direction
Confusable(a, b) ==
    {a, b} \in {{"R", "O"}, {"O", "Y"}, {"W", "Y"}}

\* mutant: the centre sticker is swapped like the others
RECURSIVE SwapPassWithCenter(_, _, _, _, _, _)
SwapPassWithCenter(corrected, over, under, excess, i, swapped) ==
    IF i > FaceSize \/ swapped >= excess THEN corrected
    ELSE IF corrected[i].color = over
    THEN SwapPassWithCenter([corrected EXCEPT ![i].color = under], over, under,
                            excess, i + 1, swapped + 1)
    ELSE SwapPassWithCenter(corrected, over, under, excess, i + 1, swapped)

\* for (i = 0; i < 9 && swapped < excess; i++), skipping the centre
RECURSIVE SwapPass(_, _, _, _, _, _)
SwapPass(corrected, over, under, excess, i, swapped) ==
    IF i > FaceSize \/ swapped >= excess THEN corrected
    ELSE IF i = Center THEN SwapPass(corrected, over, under, excess, i + 1, swapped)
    ELSE IF corrected[i].color = over
    THEN SwapPass([corrected EXCEPT ![i].color = under], over, under, excess,
                  i + 1, swapped + 1)
    ELSE SwapPass(corrected, over, under, excess, i + 1, swapped)

\* for (const [under] of underCounts)
RECURSIVE UnderLoop(_, _, _, _, _)
UnderLoop(corrected, over, overCount, unders, k) ==
    IF k > Len(unders) THEN corrected
    ELSE IF ~Confusable(over, unders[k])
    THEN UnderLoop(corrected, over, overCount, unders, k + 1)
    ELSE UnderLoop(SwapPass(corrected, over, unders[k], overCount - PerColor, 1, 0),
                   over, overCount, unders, k + 1)

\* for (const [over, overCount] of overCounts)
RECURSIVE OverLoop(_, _, _, _, _)
OverLoop(corrected, overs, unders, counts, k) ==
    IF k > Len(overs) THEN corrected
    ELSE OverLoop(UnderLoop(corrected, overs[k], counts[overs[k]], unders, 1),
                  overs, unders, counts, k + 1)

centerAnchoredCorrection(stickers, scannedFaces) ==
    LET counts == GlobalCounts(stickers, scannedFaces)
        IsOver(c) == counts[c] > PerColor
        IsUnder(c) == counts[c] < PerColor
        overCounts == SelectSeq(ColorOrder, IsOver)
        underCounts == SelectSeq(ColorOrder, IsUnder)
    IN IF Len(overCounts) = 0 \/ Len(underCounts) = 0 THEN stickers
       ELSE OverLoop(stickers, overCounts, underCounts, counts, 1)

(***************************************************************************)
(* useCubeStore                                                            *)
(***************************************************************************)

NoFaces == [f \in {} |-> Null]

initialState ==
    [faces |-> NoFaces, scannedCount |-> 0, isComplete |-> FALSE,
     isValid |-> FALSE, kociembaString |-> Null, errors |-> <<>>]

getScannedCenterColors(store) ==
    {store.faces[f].stickers[Center].color : f \in DOMAIN store.faces}

canScanFace(store, centerColor) == centerColor \notin getScannedCenterColors(store)

\* counts over all stickers of all faces
FacesCount(faces, c) == SumFaces(faces, 1, c)

\* mutant: only the centres are checked
validateFacesCentersOnly(faces) ==
    LET centers == {faces[f].stickers[Center].color : f \in DOMAIN faces}
    IN [valid |-> Cardinality(centers) = 6,
        errors |-> IF Cardinality(centers) # 6
                   THEN <<[kind |-> "centers", color |-> "-", n |-> Cardinality(centers)]>>
                   ELSE <<>>]

\* errors are [kind, color, n]; the colour errors are listed in ColorOrder
validateFaces(faces) ==
    LET centers == {faces[f].stickers[Center].color : f \in DOMAIN faces}
        centerErr == IF Cardinality(centers) # 6
                     THEN <<[kind |-> "centers", color |-> "-", n |-> Cardinality(centers)]>>
                     ELSE <<>>
        Bad(c) == FacesCount(faces, c) # 0 /\ FacesCount(faces, c) # PerColor
        bad == SelectSeq(ColorOrder, Bad)
        colorErr == [k \in 1..Len(bad) |->
                       [kind |-> "count", color |-> bad[k], n |-> FacesCount(faces, bad[k])]]
        errors == centerErr \o colorErr
    IN [valid |-> Len(errors) = 0, errors |-> errors]

\* colorToFace[color]: called only on validated faces, whose centres are distinct
ColorToFace(faces, c) ==
    IF \E f \in DOMAIN faces : faces[f].stickers[Center].color = c
    THEN faces[CHOOSE f \in DOMAIN faces : faces[f].stickers[Center].color = c].name
    ELSE ""

\* the 54 letters, face by face in KOCIEMBA_FACE_ORDER; null on an unmapped colour
buildKociembaString(faces) ==
    LET n == Len(KOCIEMBA_FACE_ORDER) * FaceSize
        Letter(p) == LET face == faces[KOCIEMBA_FACE_ORDER[((p - 1) \div FaceSize) + 1]]
                         i == ((p - 1) % FaceSize) + 1
                     IN ColorToFace(faces, face.stickers[i].color)
        result == [p \in 1..n |-> Letter(p)]
    IN IF \E p \in 1..n : result[p] = "" THEN Null
       ELSE IF Len(result) # 54 THEN Null ELSE result

\* the state set({...}) writes for a new face table
StoreWithFaces(newFaces) ==
    LET scannedCount == Cardinality(DOMAIN newFaces)
        isComplete == scannedCount = 6
        validation == IF isComplete THEN validateFaces(newFaces)
                      ELSE [valid |-> FALSE, errors |-> <<>>]
        kociemba == IF isComplete /\ validation.valid
                    THEN buildKociembaString(newFaces) ELSE Null
        failed == isComplete /\ validation.valid /\ kociemba = Null
    IN [faces |-> newFaces,
        scannedCount |-> scannedCount,
        isComplete |-> isComplete,
        isValid |-> validation.valid /\ ~failed,
        kociembaString |-> kociemba,
        errors |-> IF failed
                   THEN Append(validation.errors,
                               [kind |-> "kociemba", color |-> "-", n |-> 0])
                   ELSE validation.errors]

PutFace(faces, faceName, face) ==
    [f \in DOMAIN faces \cup {faceName} |-> IF f = faceName THEN face ELSE faces[f]]

\* mutant: a face with a centre already scanned replaces the stored one
addScannedFaceNoDuplicateCheck(store, stickers, timestamp) ==
    IF Len(stickers) # FaceSize THEN [store |-> store, ret |-> FALSE]
    ELSE LET faceName == DEFAULT_CENTER_MAP[stickers[Center].color]
             face == [name |-> faceName, stickers |-> stickers, timestamp |-> timestamp]
         IN [store |-> StoreWithFaces(PutFace(store.faces, faceName, face)),
             ret |-> TRUE]

\* addScannedFace: the store after the call and the value returned
addScannedFace(store, stickers, timestamp) ==
    IF Len(stickers) # FaceSize THEN [store |-> store, ret |-> FALSE]
    ELSE LET centerColor == stickers[Center].color
             faceName == DEFAULT_CENTER_MAP[centerColor]
             face == [name |-> faceName, stickers |-> stickers, timestamp |-> timestamp]
         IN IF ~canScanFace(store, centerColor) THEN [store |-> store, ret |-> FALSE]
            ELSE [store |-> StoreWithFaces(PutFace(store.faces, faceName, face)),
                  ret |-> TRUE]

\* updateScannedFace: the face with the same centre colour takes the new stickers
updateScannedFace(store, stickers, timestamp) ==
    IF Len(stickers) # FaceSize THEN store
    ELSE LET centerColor == stickers[Center].color
             faceName == DEFAULT_CENTER_MAP[centerColor]
             face == [name |-> faceName, stickers |-> stickers, timestamp |-> timestamp]
         IN StoreWithFaces(PutFace(store.faces, faceName, face))

\* setAllFaces: every face of faceColors under its own key, samples zeroed
setAllFaces(store, faceColors, timestamp) ==
    StoreWithFaces([fn \in DOMAIN faceColors |->
                      [name |-> fn,
                       stickers |-> [i \in 1..Len(faceColors[fn]) |->
                                       [color |-> faceColors[fn][i], rgb |-> 0]],
                       timestamp |-> timestamp]])

\* mutant: the face is removed and the flags and the string are left as they were
removeFaceKeepsFlags(store, faceName) ==
    [store EXCEPT !.faces = [f \in DOMAIN store.faces \ {faceName} |-> store.faces[f]],
                  !.scannedCount = Cardinality(DOMAIN store.faces \ {faceName}),
                  !.errors = <<>>]

removeFace(store, faceName) ==
    [faces |-> [f \in DOMAIN store.faces \ {faceName} |-> store.faces[f]],
     scannedCount |-> Cardinality(DOMAIN store.faces \ {faceName}),
     isComplete |-> FALSE, isValid |-> FALSE, kociembaString |-> Null,
     errors |-> <<>>]

resetCube(store) == initialState

(***************************************************************************)
(* Bounds and inputs                                                       *)
(***************************************************************************)

\* Date.now() of the first frame: any time later than the thresholds
Epoch == 10000

\* largest buffer capacity in the buffer specification
MaxCapacity == 6

\* number of addFrame/reset calls in the buffer specification
MaxCalls == 7

\* the quorum fractions the program and its scenarios use: 0.6, 0.7, 5/6
Thresholds == {<<6, 10>>, <<7, 10>>, <<5, 6>>}

AllRed == [i \in 1..FaceSize |-> "R"]

FirstOrange == [AllRed EXCEPT ![1] = "O"]

Mixed == <<"W", "R", "R", "G", "G", "R", "O", "R", "B">>

\* a colour array that does not have 9 entries
ShortColors == <<"R", "R", "R">>

VoteInputs == {AllRed, FirstOrange, Mixed, ShortColors}

(***************************************************************************)
(* The scanner's state when the hook is mounted                            *)
(***************************************************************************)

\* the native handles by the name of the variable that holds them
Handles ==
    {"frame",
     "warped", "srcPts", "dstPts", "M",
     "gray", "blurred", "edges", "dilated", "contours", "hierarchy", "kernel", "approx",
     "small", "hsv", "mask", "morphed", "contoursMat", "hierarchyMat", "rgb",
     "lowColor", "highColor", "whiteMask", "lowW", "highW", "kernelClose", "kernelOpen"}

NoMats == [h \in Handles |-> 0]

initialScannerStore ==
    [currentDetection |-> Null,
     currentColors |-> Null, stableMs |-> 0, isStable |-> FALSE,
     guidanceText |-> [kind |-> "hold", missing |-> {}, count |-> 0]]

\* useSolverStore's state after create(): no solution, no cubies; a status or
\* error of null is the empty string
initialSolverStore ==
    [solution |-> <<>>, solutionString |-> Null, solveError |-> "",
     solveStatus |-> "", isPlaying |-> FALSE, currentStep |-> 0,
     isAnimating |-> FALSE, cubies |-> <<>>, initialCubies |-> <<>>]

\* lib/solver.ts after import: not initialized, no solve in progress
initialSolver ==
    [initialized |-> FALSE, skipOptimizationFlag |-> FALSE, solves |-> <<>>]

\* no animation in progress (rotationRef.current null), playingRef false, no
\* animation frame requested by playNextMove
initialPlayer == [playingRef |-> FALSE, rotationRef |-> Null, playRaf |-> FALSE]

\* useCamera after its first render: no stream (0), abortRef false, not ready;
\* no start() call yet, no stream acquired
initialCamera ==
    [streamRef |-> 0, abortRef |-> FALSE, videoRef |-> FALSE, srcObject |-> 0,
     ready |-> FALSE, error |-> "", starts |-> <<>>, acquired |-> 0, live |-> {}]

InitRefs ==
    /\ now = Epoch
    /\ lastCornersRef = Null
    /\ stableStartRef = 0
    /\ cooldownRef = 0
    /\ lockedCornersRef = Null
    /\ lockFailCountRef = 0
    /\ lastFrameColorsRef = Null
    /\ rafRef = TRUE
    /\ mats = NoMats
    /\ scannerStore = initialScannerStore
    /\ solverStore = initialSolverStore
    /\ solver = initialSolver
    /\ player = initialPlayer
    /\ camera = initialCamera

(***************************************************************************)
(* SpecBuffer: a FrameVotingBuffer under any sequence of addFrame and      *)
(* reset calls.  obs counts the valid frames added since the last reset    *)
(* (added), whether they were all one vector (uniform), and the length of  *)
(* the current run of calls with one vector (run), and those valid frames  *)
(* in arrival order (hist).                                                *)
(***************************************************************************)

InitBuffer ==
    /\ InitRefs
    /\ cubeStore = initialState
    /\ votingBufferRef \in {NewFrameVotingBuffer(m, t[1], t[2]) :
                              m \in MinFrames..MaxCapacity, t \in Thresholds}
    /\ obs = [op |-> "new", arg |-> Null, ret |-> Null, added |-> 0,
              uniform |-> TRUE, run |-> 0, last |-> Null, calls |-> 0,
              wasReset |-> FALSE, hist |-> <<>>]

BufAddFrame(colors) ==
    /\ obs.calls < MaxCalls
    /\ LET r == addFrame(votingBufferRef, colors)
           valid == Len(colors) = FaceSize
       IN /\ votingBufferRef' = r.fvb
          /\ obs' = [obs EXCEPT
                !.op = "addFrame", !.arg = colors, !.ret = r.ret,
                !.added = IF valid THEN @ + 1 ELSE @,
                !.uniform = valid /\ (obs.added = 0 \/ (@ /\ colors = obs.last)),
                !.run = IF ~valid THEN 0 ELSE IF colors = obs.last THEN @ + 1 ELSE 1,
                !.last = IF valid THEN colors ELSE @,
                !.hist = IF valid THEN Append(@, colors) ELSE @,
                !.calls = @ + 1]
    /\ UNCHANGED <<scanRefs, cubeStore>>

BufReset ==
    /\ obs.calls < MaxCalls
    /\ votingBufferRef' = resetBuffer(votingBufferRef)
    /\ obs' = [obs EXCEPT !.op = "reset", !.arg = Null, !.ret = Null, !.added = 0,
                          !.uniform = TRUE, !.run = 0, !.last = Null,
                          !.calls = @ + 1, !.wasReset = TRUE, !.hist = <<>>]
    /\ UNCHANGED <<scanRefs, cubeStore>>

NextBuffer ==
    \/ \E colors \in VoteInputs : BufAddFrame(colors)
    \/ BufReset

SpecBuffer == InitBuffer /\ [][NextBuffer]_vars

\* number of buffered frames voting colour c at position i
Votes(i, c) ==
    Cardinality({k \in DOMAIN votingBufferRef.buffer : votingBufferRef.buffer[k][i] = c})

\* n votes reach the quorum fraction of the frames buffered
ReachesQuorum(n) ==
    n * votingBufferRef.consensusThreshold.den
        >= Len(votingBufferRef.buffer) * votingBufferRef.consensusThreshold.num

\* the last n entries of a sequence (all of them when it has fewer)
LastN(seq, n) ==
    IF Len(seq) <= n THEN seq ELSE SubSeq(seq, Len(seq) - n + 1, Len(seq))

\* C18: the buffer holds at most maxFrames vectors, exactly the most recent
\* valid vectors added since the last reset, in arrival order, each of 9 entries
C18_BoundedFifo ==
    /\ Len(votingBufferRef.buffer) <= votingBufferRef.maxFrames
    /\ votingBufferRef.buffer = LastN(obs.hist, votingBufferRef.maxFrames)
    /\ \A k \in DOMAIN votingBufferRef.buffer : Len(votingBufferRef.buffer[k]) = 9

\* more valid vectors than the capacity were added after a reset, not all the
\* same: the oldest ones are gone
C18_Witness ==
    /\ obs.wasReset
    /\ Len(obs.hist) > votingBufferRef.maxFrames
    /\ obs.hist[1] # obs.hist[Len(obs.hist)]
    /\ Len(votingBufferRef.buffer) = votingBufferRef.maxFrames
    /\ votingBufferRef.buffer[1] # obs.hist[1]

\* C2: addFrame returns none while fewer than 5 valid frames have been added
\* since construction or the last reset.
C2_NoResultBeforeMinFill ==
    (obs.op = "addFrame" /\ obs.added < 5) => obs.ret = Null

C2_Witness ==
    /\ obs.op = "addFrame" /\ obs.wasReset
    /\ obs.added = 4 /\ obs.uniform /\ obs.ret = Null

\* C3: a returned vector holds at every position a most frequent colour whose
\* count reaches the quorum fraction of the frames buffered; when some
\* position has no colour reaching it, addFrame returns none.
C3_MajorityWithQuorum ==
    obs.op = "addFrame" =>
        /\ obs.ret # Null =>
              \A i \in 1..FaceSize :
                  /\ ReachesQuorum(Votes(i, obs.ret[i]))
                  /\ \A c \in Colors : Votes(i, c) <= Votes(i, obs.ret[i])
        /\ (\E i \in 1..FaceSize : \A c \in Colors : ~ReachesQuorum(Votes(i, c)))
              => obs.ret = Null

C3_Witness ==
    /\ obs.op = "addFrame" /\ obs.ret # Null
    /\ \E i \in 1..FaceSize :
          /\ Votes(i, obs.ret[i]) < Len(votingBufferRef.buffer)
          /\ ~ReachesQuorum(Votes(i, obs.ret[i]) - 1)

\* C4: from an empty buffer, feeding one vector c returns none on calls 1 to 4
\* and c from the 5th call on; from any content, maxFrames consecutive calls
\* with c return c; capacity 6 with quorum 5/6 and six all-Red frames gives
\* all-Red.
C4_ConvergesOnSteadyInput ==
    (obs.op = "addFrame" /\ Len(obs.arg) = FaceSize) =>
        /\ (obs.uniform /\ obs.added <= 4) => obs.ret = Null
        /\ (obs.uniform /\ obs.added >= 5) => obs.ret = obs.arg
        /\ obs.run >= votingBufferRef.maxFrames => obs.ret = obs.arg
        /\ ( /\ votingBufferRef.maxFrames = 6
             /\ votingBufferRef.consensusThreshold = [num |-> 5, den |-> 6]
             /\ obs.uniform /\ obs.added = 6 /\ obs.arg = AllRed ) => obs.ret = AllRed

C4_Witness ==
    /\ obs.op = "addFrame" /\ ~obs.uniform
    /\ obs.run = votingBufferRef.maxFrames
    /\ obs.ret = obs.arg

(***************************************************************************)
(* SpecValidate: validateFaceColors applied to every sticker array of      *)
(* 8 to MaxStickers stickers over three colours.                           *)
(***************************************************************************)

\* longest sticker array given to validateFaceColors
MaxStickers == 9

ValidateColors == {"R", "W", "G"}

ValidateInputs ==
    UNION {[1..n -> ValidateColors] : n \in (FaceSize - 1)..MaxStickers}

InitValidate ==
    /\ InitRefs
    /\ cubeStore = initialState
    /\ votingBufferRef = NewFrameVotingBuffer(15, 7, 10)
    /\ obs \in {[op |-> "input", stickers |-> Stickers(colors),
                 ret |-> [valid |-> FALSE, reason |-> ""]] : colors \in ValidateInputs}

ValidateCall ==
    /\ obs.op = "input"
    /\ obs' = [obs EXCEPT !.op = "validateFaceColors",
                          !.ret = validateFaceColors(obs.stickers)]
    /\ UNCHANGED <<scanRefs, cubeStore, votingBufferRef>>

NextValidate == ValidateCall

SpecValidate == InitValidate /\ [][NextValidate]_vars

\* number of stickers of colour c
Occurrences(stickers, c) ==
    Cardinality({i \in DOMAIN stickers : stickers[i].color = c})

\* the four grounds for rejecting a candidate
Implausible(stickers) ==
    \/ Len(stickers) # 9
    \/ /\ \A i \in DOMAIN stickers : stickers[i].color = stickers[5].color
       /\ stickers[5].color # "W"
    \/ \E c \in Colors : c # stickers[5].color /\ Occurrences(stickers, c) > 5
    \/ stickers[5].color # "W" /\ Occurrences(stickers, "W") > 4

\* C9: validateFaceColors rejects a candidate exactly when it does not have 9
\* stickers, or is one non-white colour throughout, or has a non-centre colour
\* more than 5 times, or has more than 4 whites around a non-white centre;
\* 8 Red + 1 White with a Red centre passes, 9 White passes, 9 Red fails.
C9_ValidateExactly ==
    obs.op = "validateFaceColors" =>
        /\ obs.ret.valid <=> ~Implausible(obs.stickers)
        /\ ( /\ Len(obs.stickers) = 9
             /\ Occurrences(obs.stickers, "R") = 8
             /\ Occurrences(obs.stickers, "W") = 1
             /\ obs.stickers[5].color = "R" ) => obs.ret.valid
        /\ ColorsOf(obs.stickers) = [i \in 1..9 |-> "W"] => obs.ret.valid
        /\ ColorsOf(obs.stickers) = AllRed => ~obs.ret.valid

C9_Witness ==
    /\ obs.op = "validateFaceColors" /\ obs.ret.valid
    /\ Len(obs.stickers) = 9
    /\ Occurrences(obs.stickers, "R") = 8
    /\ obs.stickers[5].color = "R"

(***************************************************************************)
(* SpecCorrection: centerAnchoredCorrection applied to a candidate and the *)
(* faces the cube store holds.  The faces are stored by addScannedFace.    *)
(***************************************************************************)

FaceW == <<"W", "W", "W", "W", "W", "O", "O", "O", "O">>

FaceY == <<"Y", "Y", "Y", "Y", "Y", "W", "W", "W", "W">>

FaceO == <<"O", "O", "Y", "Y", "O", "Y", "G", "G", "G">>

FaceG == <<"O", "O", "O", "O", "G", "W", "W", "B", "B">>

FaceR == <<"R", "R", "R", "R", "R", "O", "O", "G", "G">>

FaceB == <<"B", "B", "B", "Y", "B", "R", "R", "G", "B">>

FaceW2 == <<"W", "Y", "W", "Y", "W", "R", "W", "R", "W">>

FaceO2 == <<"O", "O", "O", "O", "O", "O", "R", "R", "Y">>

\* faces that pass validateFaceColors, one or two per centre colour
FacePool == {FaceW, FaceY, FaceO, FaceG, FaceR, FaceB, FaceW2, FaceO2}

InitCorrection ==
    /\ InitRefs
    /\ cubeStore = initialState
    /\ votingBufferRef = NewFrameVotingBuffer(15, 7, 10)
    /\ obs = [op |-> "init", stickers |-> Null, faces |-> NoFaces, ret |-> Null]

CorrectionAddFace(colors) ==
    /\ validateFaceColors(Stickers(colors)).valid
    /\ LET r == addScannedFace(cubeStore, Stickers(colors), now)
       IN /\ r.ret
          /\ cubeStore' = r.store
    /\ obs' = [op |-> "addScannedFace", stickers |-> Stickers(colors),
               faces |-> cubeStore.faces, ret |-> Null]
    /\ UNCHANGED <<scanRefs, votingBufferRef>>

CorrectionCall(colors) ==
    /\ validateFaceColors(Stickers(colors)).valid
    /\ obs' = [op |-> "centerAnchoredCorrection", stickers |-> Stickers(colors),
               faces |-> cubeStore.faces,
               ret |-> centerAnchoredCorrection(Stickers(colors), cubeStore.faces)]
    /\ UNCHANGED <<scanRefs, votingBufferRef, cubeStore>>

NextCorrection ==
    \/ \E colors \in FacePool : CorrectionAddFace(colors)
    \/ \E colors \in FacePool : CorrectionCall(colors)

SpecCorrection == InitCorrection /\ [][NextCorrection]_vars

\* the largest per-colour count of a tally
LargestCount(counts) ==
    CHOOSE n \in {counts[c] : c \in Colors} : \A c \in Colors : counts[c] <= n

\* C10: the correction leaves 9 stickers on the candidate and, in the tally
\* over the accepted faces plus the corrected candidate, no colour exceeds the
\* largest per-colour count of the tally before the correction.
C10_NoCountAbovePreviousMaximum ==
    obs.op = "centerAnchoredCorrection" =>
        /\ Len(obs.ret) = Len(obs.stickers)
        /\ Len(obs.ret) = 9
        /\ \A c \in Colors :
              GlobalCounts(obs.ret, obs.faces)[c]
                  <= LargestCount(GlobalCounts(obs.stickers, obs.faces))

\* how far a count is from the 9 stickers a colour has on a cube
FromNine(n) == IF n > PerColor THEN n - PerColor ELSE PerColor - n

\* C11: after centerAnchoredCorrection every colour that was globally over 9
\* is still at 9 or more, every colour that was under 9 is at 9 or less, and
\* no colour's global count is farther from 9 than before the correction.
C11_CountsMoveTowardNine ==
    obs.op = "centerAnchoredCorrection" =>
        \A c \in Colors :
            LET before == GlobalCounts(obs.stickers, obs.faces)[c]
                after == GlobalCounts(obs.ret, obs.faces)[c]
            IN /\ before > PerColor => after >= PerColor
               /\ before < PerColor => after <= PerColor
               /\ FromNine(after) <= FromNine(before)

(***************************************************************************)
(* The cube store under its actions                                        *)
(***************************************************************************)

NextColor == [W |-> "R", R |-> "G", G |-> "O", O |-> "B", B |-> "Y", Y |-> "W"]

\* a face of centre c whose top row shows the next colour: six such faces
\* hold every colour 9 times
CycleFace(c) == <<NextColor[c], NextColor[c], NextColor[c], c, c, c, c, c, c>>

PlainWhite == <<"W", "W", "W", "W", "W", "W", "W", "W", "W">>

PlainRed == <<"R", "R", "R", "R", "R", "R", "R", "R", "R">>

\* the colour arrays addScannedFace is called with
StoreInputs == {CycleFace(c) : c \in Colors} \cup {PlainWhite, PlainRed, ShortColors}

\* the centre colour DEFAULT_CENTER_MAP sends to a face
CenterOf(f) == CHOOSE c \in Colors : DEFAULT_CENTER_MAP[c] = f

CycleCube == [f \in FaceNames |-> CycleFace(CenterOf(f))]

\* CycleCube with the faces under U and F exchanged
SwappedCube == [CycleCube EXCEPT !["U"] = CycleCube["F"], !["F"] = CycleCube["U"]]

\* CycleCube with a plain white face: 12 white, 6 red
MiscountedCube == [CycleCube EXCEPT !["U"] = PlainWhite]

\* the face tables the manual editor saves
EditorInputs == {CycleCube, SwappedCube, MiscountedCube}

InitStore ==
    /\ InitRefs
    /\ cubeStore = initialState
    /\ votingBufferRef = NewFrameVotingBuffer(15, 7, 10)
    /\ obs = [op |-> "init", arg |-> Null, ret |-> FALSE]

StoreAddFace(colors) ==
    /\ \E r \in {addScannedFace(cubeStore, Stickers(colors), now)} :
          /\ cubeStore' = r.store
          /\ obs' = [op |-> "addScannedFace", arg |-> Stickers(colors), ret |-> r.ret]
    /\ UNCHANGED <<scanRefs, votingBufferRef>>

StoreSetAllFaces(faceColors) ==
    /\ cubeStore' = setAllFaces(cubeStore, faceColors, now)
    /\ obs' = [op |-> "setAllFaces", arg |-> Null, ret |-> FALSE]
    /\ UNCHANGED <<scanRefs, votingBufferRef>>

StoreRemoveFace(faceName) ==
    /\ cubeStore' = removeFace(cubeStore, faceName)
    /\ obs' = [op |-> "removeFace", arg |-> Null, ret |-> FALSE]
    /\ UNCHANGED <<scanRefs, votingBufferRef>>

StoreResetCube ==
    /\ cubeStore' = resetCube(cubeStore)
    /\ obs' = [op |-> "resetCube", arg |-> Null, ret |-> FALSE]
    /\ UNCHANGED <<scanRefs, votingBufferRef>>

NextStore ==
    \/ \E colors \in StoreInputs : StoreAddFace(colors)
    \/ \E faceColors \in EditorInputs : StoreSetAllFaces(faceColors)
    \/ \E faceName \in FaceNames : StoreRemoveFace(faceName)
    \/ StoreResetCube

SpecStore == InitStore /\ [][NextStore]_vars

\* the call a step makes is addScannedFace with a centre colour already in the
\* store, or with a sticker array that does not have 9 entries
RefusedCall ==
    /\ obs'.op = "addScannedFace"
    /\ \/ Len(obs'.arg) # 9
       \/ \E f \in DOMAIN cubeStore.faces :
             cubeStore.faces[f].stickers[5].color = obs'.arg[5].color

\* C12: addScannedFace called with a face whose centre colour is the centre
\* colour of a face already in the store, or with a sticker array that does not
\* have exactly 9 entries, returns false and leaves the whole store unchanged.
C12_DuplicateCenterRefused ==
    [][RefusedCall => obs'.ret = FALSE /\ cubeStore' = cubeStore]_vars

\* a refused call whose stickers differ from those of the stored face
C12_Witness ==
    /\ obs.op = "addScannedFace" /\ obs.ret = FALSE
    /\ Len(obs.arg) = 9
    /\ \E f \in DOMAIN cubeStore.faces :
          /\ cubeStore.faces[f].stickers[5].color = obs.arg[5].color
          /\ cubeStore.faces[f].stickers # obs.arg

\* the number of positions of a string that hold a letter
LetterCount(str, letter) == Cardinality({p \in 1..Len(str) : str[p] = letter})

\* the name of the face of the store whose centre shows a colour
FaceOfCenter(color) ==
    CHOOSE f \in DOMAIN cubeStore.faces : cubeStore.faces[f].stickers[5].color = color

\* C13: a non-null kociembaString has exactly 54 characters, each one of U, R,
\* F, D, L, B and each letter 9 times; the character at position 9k+i is the
\* name of the face whose centre colour equals sticker i of the k-th face in
\* the order U, R, F, D, L, B, so position 9k+4 is the k-th face's own letter.
C13_KociembaStringWellFormed ==
    cubeStore.kociembaString # Null =>
        /\ Len(cubeStore.kociembaString) = 54
        /\ \A p \in 1..54 : cubeStore.kociembaString[p] \in {"U", "R", "F", "D", "L", "B"}
        /\ \A f \in {"U", "R", "F", "D", "L", "B"} :
              LetterCount(cubeStore.kociembaString, f) = 9
        /\ \A k \in 0..5, i \in 0..8 :
              LET face == <<"U", "R", "F", "D", "L", "B">>[k + 1]
                  color == cubeStore.faces[face].stickers[i + 1].color
              IN /\ \E f \in DOMAIN cubeStore.faces :
                        cubeStore.faces[f].stickers[5].color = color
                 /\ cubeStore.kociembaString[9 * k + i + 1] = FaceOfCenter(color)
        /\ \A k \in 0..5 :
              cubeStore.kociembaString[9 * k + 5] = <<"U", "R", "F", "D", "L", "B">>[k + 1]

\* a string built from faces saved under keys other than their centres' faces,
\* with letters of other faces in it
C13_Witness ==
    /\ cubeStore.kociembaString # Null
    /\ cubeStore.faces["U"].stickers[5].color = "R"
    /\ cubeStore.kociembaString[1] # "U"

(***************************************************************************)
(* useScannerStore and guidance                                            *)
(***************************************************************************)

setDetection(store, detected, corners) ==
    [store EXCEPT !.currentDetection = [detected |-> detected, corners |-> corners]]

setCurrentColors(store, stickers) == [store EXCEPT !.currentColors = stickers]

setStability(store, ms) ==
    [store EXCEPT !.stableMs = ms, !.isStable = ms >= StoreStableMs]

\* mutant: the reported stable time is left as it was
resetStabilityKeeps(store) == store

resetStability(store) == [store EXCEPT !.stableMs = 0, !.isStable = FALSE]

setGuidanceText(store, text) == [store EXCEPT !.guidanceText = text]

\* the face names of the centre colours not scanned yet
MissingNames(cube) ==
    {DEFAULT_CENTER_MAP[c] : c \in Colors \ getScannedCenterColors(cube)}

\* `${FACE_NAMES[faceName]} updated! Show ${getMissingFaces()}`
faceUpdatedText(cube, scannedCount) ==
    [kind |-> "face-updated", missing |-> MissingNames(cube), count |-> scannedCount]

\* the text updateGuidance sets, as [kind, missing, count]
updateGuidance(cube, scannedCount, faceDetected) ==
    IF scannedCount >= 6 THEN [kind |-> "all-scanned", missing |-> {}, count |-> 6]
    ELSE IF ~faceDetected
    THEN IF MissingNames(cube) # {}
         THEN [kind |-> "show", missing |-> MissingNames(cube), count |-> scannedCount]
         ELSE [kind |-> "hold-cube", missing |-> {}, count |-> scannedCount]
    ELSE [kind |-> "hold-steady", missing |-> {}, count |-> scannedCount]

(***************************************************************************)
(* useScannerLoop                                                          *)
(***************************************************************************)

Abs(n) == IF n < 0 THEN -n ELSE n

isSimilarDetection(prev, curr) ==
    IF prev = Null \/ Len(prev) # 4 \/ Len(curr) # 4 THEN FALSE
    ELSE \A i \in 1..4 :
            ~ \/ Abs(prev[i].x - curr[i].x) > STABILITY_POSITION_TOLERANCE
              \/ Abs(prev[i].y - curr[i].y) > STABILITY_POSITION_TOLERANCE

\* the positions whose colour differs from the previous sampled frame
Changed(prev, frameColors) ==
    Cardinality({i \in 1..FaceSize : prev[i] # frameColors[i]})

\* mutant: the color-shift rule needs more than 3 changed positions
ColorShiftAboveLimit(prev, frameColors) ==
    prev # Null /\ Len(prev) = FaceSize /\ Changed(prev, frameColors) > ShiftLimit

\* if (prev && prev.length === 9) ... if (changed >= 3)
ColorShift(prev, frameColors) ==
    prev # Null /\ Len(prev) = FaceSize /\ Changed(prev, frameColors) >= ShiftLimit

\* mutant: the cooldown is not checked
CaptureDueNoCooldown(elapsed, votedColors, stickers, t, cooldown) ==
    elapsed >= STABILITY_THRESHOLD_MS /\ votedColors # Null /\ stickers # Null

\* mutant: the stable time is not checked
CaptureDueNoStability(elapsed, votedColors, stickers, t, cooldown) ==
    votedColors # Null /\ stickers # Null /\ t > cooldown

\* elapsed >= STABILITY_THRESHOLD_MS && votedColors && stickers && now > cooldownRef.current
CaptureDue(elapsed, votedColors, stickers, t, cooldown) ==
    /\ elapsed >= STABILITY_THRESHOLD_MS
    /\ votedColors # Null
    /\ stickers # Null
    /\ t > cooldown

\* stickers.map((s, i) => ({ ...s, color: votedColors[i] }))
VotedStickers(stickers, votedColors) ==
    [i \in 1..Len(stickers) |-> [stickers[i] EXCEPT !.color = votedColors[i]]]

\* number of frame callbacks the scanner runs
MaxFrames == 11

\* time between two frame callbacks, in ms
FrameGap == 300

\* number of disturbed frames: every frame but those on which the quad and
\* the colours read are those of the previous frame that had them
MaxDisturbances == 2

Quad0 == <<[x |-> 100, y |-> 100], [x |-> 300, y |-> 100],
           [x |-> 300, y |-> 300], [x |-> 100, y |-> 300]>>

\* Quad0 with one corner moved by exactly the tolerance
QuadNear == [Quad0 EXCEPT ![2].x = 320]

\* Quad0 with one corner moved by one pixel more than the tolerance
QuadFar == [Quad0 EXCEPT ![3].y = 321]

Quads == {Quad0, QuadNear, QuadFar}

\* a face that passes validateFaceColors, centre Red
FrameA == <<"W", "W", "W", "W", "R", "O", "O", "G", "G">>

\* FrameA with one sticker read differently: too much white to pass
FrameA1 == [FrameA EXCEPT ![6] = "W"]

\* another face, centre Green: exactly 3 stickers differ from FrameA
FrameB == <<"W", "W", "W", "W", "G", "O", "O", "R", "R">>

\* the colours extractFaceColors reads off a frame
FrameColors == {FrameA, FrameA1, FrameB}

InitScanner ==
    /\ InitRefs
    /\ cubeStore = initialState
    /\ votingBufferRef = NewFrameVotingBuffer(15, 7, 10)
    /\ obs = [op |-> "mount", outcome |-> "", frames |-> 0, usedLock |-> FALSE,
              shift |-> FALSE, voted |-> Null, stable |-> FALSE, elapsed |-> 0,
              buffered |-> <<>>, committed |-> FALSE,
              prevCommitAt |-> 0, cooldown |-> 0, similar |-> FALSE,
              lastCommitAt |-> 0,
              disturbances |-> 0]

\* processFrame when the video is not ready or cv.imread throws: nothing is
\* read or written, the next frame is requested; the clock moves on
FrameSkipped ==
    /\ obs.frames < MaxFrames
    /\ obs.disturbances < MaxDisturbances
    /\ now' = now + FrameGap
    /\ obs' = [obs EXCEPT !.op = "skipped", !.outcome = "skipped",
                          !.frames = @ + 1, !.committed = FALSE,
                          !.disturbances = @ + 1, !.cooldown = cooldownRef,
                          !.similar = FALSE,
                          !.prevCommitAt = obs.lastCommitAt]
    /\ UNCHANGED <<lastCornersRef, stableStartRef, cooldownRef, lockedCornersRef,
                   lockFailCountRef, lastFrameColorsRef, scannerStore,
                   cubeStore, votingBufferRef, rafRef, mats, solverStore,
                   solver, player, camera>>

\* location tracking and full detection (lines 74-118): the quad used, whether
\* it is the locked one, and the lock refs afterwards
LocateFace(locked, fails, lockSample, det) ==
    LET usedLockedPosition == locked # Null /\ lockSample # Null
        lockFailed == locked # Null /\ lockSample = Null
        fails1 == IF usedLockedPosition THEN 0
                  ELSE IF lockFailed THEN fails + 1 ELSE fails
        unlock == lockFailed /\ fails1 >= LOCK_FAIL_THRESHOLD
        detected == ~usedLockedPosition /\ det # Null
    IN [usedLockedPosition |-> usedLockedPosition,
        corners |-> IF usedLockedPosition THEN locked
                    ELSE IF detected THEN det ELSE Null,
        locked |-> IF detected THEN det ELSE IF unlock THEN Null ELSE locked,
        fails |-> IF detected \/ unlock THEN 0 ELSE fails1]

\* auto-capture (lines 192-257) of a stable frame with consensus: the outcome,
\* the cube store afterwards and the stickers passed to the store
Capture(cube, stickers, votedColors, t) ==
    LET votedStickers == VotedStickers(stickers, votedColors)
        correctedStickers == centerAnchoredCorrection(votedStickers, cube.faces)
    IN IF ~validateFaceColors(votedStickers).valid
       THEN [outcome |-> "invalid", cube |-> cube, passed |-> <<>>]
       ELSE IF canScanFace(cube, votedStickers[Center].color)
       THEN LET add == addScannedFace(cube, correctedStickers, t)
            IN [outcome |-> IF add.ret THEN "captured" ELSE "addfailed",
                cube |-> add.store, passed |-> correctedStickers]
       ELSE [outcome |-> "updated",
             cube |-> updateScannedFace(cube, correctedStickers, t),
             passed |-> correctedStickers]

\* the frame callback at time t with no quad (lines 123-135)
NoDetection(t, loc, disturbances) ==
    /\ lastCornersRef' = Null
    /\ lastFrameColorsRef' = Null
    /\ stableStartRef' = 0
    /\ votingBufferRef' = resetBuffer(votingBufferRef)
    /\ lockedCornersRef' = loc.locked
    /\ lockFailCountRef' = loc.fails
    /\ scannerStore' =
          setGuidanceText(
              setCurrentColors(resetStability(setDetection(scannerStore, FALSE, Null)),
                               Null),
              updateGuidance(cubeStore, initialState.scannedCount, FALSE))
    /\ obs' = [op |-> "frame", outcome |-> "nodetect", frames |-> obs.frames + 1,
               usedLock |-> FALSE, shift |-> FALSE, voted |-> Null,
               stable |-> FALSE, elapsed |-> 0, buffered |-> <<>>,
               committed |-> FALSE, prevCommitAt |-> obs.lastCommitAt,
               cooldown |-> cooldownRef, similar |-> FALSE,
               lastCommitAt |-> obs.lastCommitAt, disturbances |-> disturbances]
    /\ UNCHANGED <<cooldownRef, cubeStore>>

\* the frame callback at time t with the quad loc.corners, where
\* extractFaceColors reads colors (lines 137-262)
Detection(t, loc, colors, disturbances) ==
    \E stickers \in {IF colors = Null THEN Null ELSE Stickers(colors)},
       shift \in {colors # Null /\ ColorShift(lastFrameColorsRef, colors)} :
    \E added \in {IF colors = Null THEN [fvb |-> votingBufferRef, ret |-> Null]
                  ELSE addFrame(IF shift THEN resetBuffer(votingBufferRef)
                                ELSE votingBufferRef, colors)},
       start1 \in {IF shift THEN t ELSE stableStartRef},
       isStable \in {loc.usedLockedPosition
                        \/ isSimilarDetection(lastCornersRef, loc.corners)} :
    \E res \in {IF ~isStable THEN [outcome |-> "moved", cube |-> cubeStore]
                ELSE IF ~CaptureDue(t - start1, added.ret, stickers, t, cooldownRef)
                THEN [outcome |-> "waiting", cube |-> cubeStore]
                ELSE Capture(cubeStore, stickers, added.ret, t)} :
    \E committed \in {res.outcome \in {"captured", "updated"}},
       store1 \in {LET a == setCurrentColors(
                               setDetection(scannerStore, TRUE, loc.corners), stickers)
                       b == IF shift THEN resetStability(a) ELSE a
                   IN setStability(b, IF isStable THEN t - start1 ELSE 0)} :
       /\ cubeStore' = res.cube
       /\ cooldownRef' = IF committed THEN t + COOLDOWN_MS ELSE cooldownRef
       /\ lockedCornersRef' = IF shift \/ res.outcome = "captured" THEN Null
                              ELSE loc.locked
       /\ lockFailCountRef' = IF shift \/ res.outcome = "captured" THEN 0
                              ELSE loc.fails
       /\ lastCornersRef' = IF res.outcome = "captured" THEN Null ELSE loc.corners
       /\ lastFrameColorsRef' = IF res.outcome = "captured" THEN Null
                                ELSE IF colors # Null THEN colors
                                ELSE lastFrameColorsRef
       /\ stableStartRef' = IF committed THEN 0
                            ELSE IF ~isStable THEN t ELSE start1
       /\ votingBufferRef' = IF committed THEN resetBuffer(added.fvb) ELSE added.fvb
       /\ scannerStore' =
             IF res.outcome = "invalid" THEN store1
             ELSE setGuidanceText(
                      IF res.outcome = "updated"
                      THEN setGuidanceText(resetStability(store1),
                                           faceUpdatedText(res.cube, res.cube.scannedCount))
                      ELSE IF committed THEN resetStability(store1) ELSE store1,
                      updateGuidance(res.cube, res.cube.scannedCount, TRUE))
       /\ obs' = [op |-> "frame", outcome |-> res.outcome, frames |-> obs.frames + 1,
                  usedLock |-> loc.usedLockedPosition, shift |-> shift,
                  voted |-> added.ret, stable |-> isStable,
                  elapsed |-> IF isStable THEN t - start1 ELSE 0,
                  buffered |-> added.fvb.buffer, committed |-> committed,
                  prevCommitAt |-> obs.lastCommitAt, cooldown |-> cooldownRef,
                  similar |-> isSimilarDetection(lastCornersRef, loc.corners),
                  lastCommitAt |-> IF committed THEN t ELSE obs.lastCommitAt,
                  disturbances |-> disturbances]

\* a frame that does not repeat the quad and the colours of the previous frame
Disturbed(loc, colors) ==
    \/ loc.corners = Null
    \/ colors = Null
    \/ lastFrameColorsRef # Null /\ colors # lastFrameColorsRef
    \/ ~loc.usedLockedPosition /\ lastCornersRef # Null /\ loc.corners # lastCornersRef

\* processFrame on a frame read at time now + FrameGap.  lockSample is what
\* extractFaceColors reads at the locked quad, det what detectFace finds and
\* detSample what extractFaceColors reads at det (colours, or Null).
ProcessFrame(lockSample, det, detSample) ==
    /\ obs.frames < MaxFrames
    /\ lockedCornersRef = Null => lockSample = Null
    /\ lockSample # Null => det = Null
    /\ det = Null => detSample = Null
    /\ det = lockedCornersRef => detSample = lockSample
    /\ now' = now + FrameGap
    /\ UNCHANGED <<rafRef, mats, solverStore, solver, player, camera>>
    /\ \E loc \in {LocateFace(lockedCornersRef, lockFailCountRef, lockSample, det)} :
       \E colors \in {IF loc.usedLockedPosition THEN lockSample ELSE detSample} :
       \E disturbances \in {IF Disturbed(loc, colors) THEN obs.disturbances + 1
                            ELSE obs.disturbances} :
          /\ disturbances <= MaxDisturbances
          /\ IF loc.corners = Null
             THEN NoDetection(now + FrameGap, loc, disturbances)
             ELSE Detection(now + FrameGap, loc, colors, disturbances)

Next ==
    \/ FrameSkipped
    \/ \E lockSample \in FrameColors \cup {Null}, det \in Quads \cup {Null},
          detSample \in FrameColors \cup {Null} :
          ProcessFrame(lockSample, det, detSample)

Spec == InitScanner /\ [][Next]_vars

(***************************************************************************)
(* Properties of the scanner loop                                          *)
(***************************************************************************)

\* a frame on which addScannedFace or updateScannedFace was called
CommitAttempted == obs.op = "frame" /\ obs.outcome \in {"captured", "addfailed", "updated"}

C5_ClearedOnLossAndOnCapture ==
    obs.op = "frame" /\ obs.outcome \in {"nodetect", "captured"} =>
        /\ votingBufferRef.buffer = <<>>
        /\ lastCornersRef = Null
        /\ stableStartRef = 0
        /\ scannerStore.stableMs = 0
        /\ ~scannerStore.isStable

\* a capture that came with a filled buffer and a stable time past the threshold
C5_Witness ==
    /\ obs.op = "frame" /\ obs.outcome = "captured"
    /\ Len(obs.buffered) >= MinFrames
    /\ obs.elapsed >= STABILITY_THRESHOLD_MS
    /\ votingBufferRef.buffer = <<>>
    /\ scannerStore.stableMs = 0

\* the faces of the cube store that a step changes
FacesChanged ==
    {f \in FaceNames :
        \/ (f \in DOMAIN cubeStore'.faces) # (f \in DOMAIN cubeStore.faces)
        \/ /\ f \in DOMAIN cubeStore'.faces /\ f \in DOMAIN cubeStore.faces
           /\ cubeStore'.faces[f] # cubeStore.faces[f]}

\* C6: after a commit on a frame at time t no face is committed on a later
\* frame at a time <= t + 1500 ms, and a frame commits at most one face
C6_CooldownAfterCommit ==
    [][/\ Cardinality(FacesChanged) <= 1
       /\ FacesChanged # {} => obs'.committed
       /\ obs'.committed /\ obs.lastCommitAt > 0
             => now' > obs.lastCommitAt + COOLDOWN_MS]_vars

\* a second commit, later than the cooldown of the first
C6_Witness ==
    /\ obs.committed
    /\ obs.prevCommitAt > 0
    /\ now > obs.prevCommitAt + COOLDOWN_MS
    /\ cooldownRef = now + COOLDOWN_MS

\* C7: on a frame with a quad and no previous quad within the tolerance of it
\* (none at all after a lost detection or a capture), the stability clock is
\* reset to the frame's timestamp and the reported stable time is 0
C7_ClockRestartsWithoutSimilarQuad ==
    obs.op = "frame" /\ obs.outcome # "nodetect" /\ ~obs.similar =>
        /\ stableStartRef = now
        /\ scannerStore.stableMs = 0

\* the colours read on the frame a step processes
SampledColors == ColorsOf(scannerStore'.currentColors)

\* the number of positions whose colour differs from the previous sampled frame
ChangedPositions ==
    Cardinality({i \in 1..FaceSize : lastFrameColorsRef[i] # SampledColors[i]})

\* the buffer with the frame's colours pushed, the oldest frame dropped when full
Pushed(buffer, colors) ==
    IF Len(buffer) + 1 > votingBufferRef.maxFrames THEN Tail(Append(buffer, colors))
    ELSE Append(buffer, colors)

\* C8: when at least 3 of the 9 positions differ from the previous sampled
\* frame, the buffer holds exactly the new frame after the frame, the stability
\* clock restarts at the frame's timestamp and nothing is committed; when fewer
\* differ, the frame is pushed onto the buffer as it was
C8_ColorShiftResetsBuffer ==
    [][obs'.op = "frame" /\ obs'.outcome # "nodetect"
          /\ scannerStore'.currentColors # Null /\ lastFrameColorsRef # Null
       => IF ChangedPositions >= ShiftLimit
          THEN /\ votingBufferRef'.buffer = <<SampledColors>>
               /\ stableStartRef' = now'
               /\ ~obs'.committed
          ELSE obs'.buffered = Pushed(votingBufferRef.buffer, SampledColors)]_vars

\* a color shift on a frame that found frames in the buffer
C8_Witness ==
    /\ obs.op = "frame" /\ obs.shift
    /\ obs.frames >= 3
    /\ Len(votingBufferRef.buffer) = 1
    /\ stableStartRef = now
    /\ ~obs.committed

\* a frame on which a quad was found and extractFaceColors returned none
SamplingFailed ==
    /\ obs.op = "frame" /\ obs.outcome # "nodetect"
    /\ scannerStore.currentColors = Null

\* C15: at the end of a frame on which a quad was found but extractFaceColors
\* returned none, the voting buffer and the stability state are cleared as on
\* a frame with no quad: buffer empty, previous quad null, stability clock
\* start 0, reported stable time 0 and isStable false.
C15_SamplingFailureClears ==
    SamplingFailed =>
        /\ votingBufferRef.buffer = <<>>
        /\ lastCornersRef = Null
        /\ stableStartRef = 0
        /\ scannerStore.stableMs = 0
        /\ ~scannerStore.isStable

\* C17: at the end of a frame on which a stable, voted, valid face has a centre
\* colour already captured, the guidance text is the face-specific message,
\* not the generic guidance of a detected frame.
C17_DuplicateCenterGuidance ==
    obs.op = "frame" /\ obs.outcome = "updated" =>
        /\ scannerStore.guidanceText.kind = "face-updated"
        /\ scannerStore.guidanceText.kind \notin {"hold-steady", "all-scanned"}

(***************************************************************************)
(* SpecFrame: the frame callback and the detector on native handles.  A    *)
(* function body is the sequence of its allocations, deletions and OpenCV  *)
(* calls; an OpenCV call may throw, which cuts the body there and runs the *)
(* finally block; what counts afterwards is the handles the run left      *)
(* undeleted.  What the stability and capture logic decides is taken as an *)
(* input here (Spec has that logic).                                       *)
(***************************************************************************)

NewMat(h) == [op |-> "new", h |-> h]

Delete(h) == [op |-> "del", h |-> h]

CvCall(f) == [op |-> "call", h |-> f]

\* the steps of a body that may throw: the OpenCV calls (a run of calls with
\* no allocation or deletion between them is one step), and the allocations
\* made by an OpenCV function (the handles listed in made)
ThrowPoints(body, made) ==
    {i \in 1..Len(body) : body[i].op = "call" \/ body[i].h \in made}

\* allocations minus deletions of each handle in a sequence of events
Net(events) ==
    LET news == {i \in DOMAIN events : events[i].op = "new"}
        dels == {i \in DOMAIN events : events[i].op = "del"}
    IN [h \in Handles |-> Cardinality({i \in news : events[i].h = h})
                            - Cardinality({i \in dels : events[i].h = h})]

Plus(a, b) == [h \in Handles |-> a[h] + b[h]]

\* a body run to its end (t = 0) or until step t throws, then the finally block
Run(body, fin, t) ==
    [net |-> Net((IF t = 0 THEN body ELSE SubSeq(body, 1, t - 1)) \o fin),
     threw |-> t # 0]

\* extractFaceColors: warped, then the try block
ExtractBody ==
    <<NewMat("warped"),
      NewMat("srcPts"), NewMat("dstPts"), NewMat("M"),
      CvCall("warpPerspective"),
      Delete("srcPts"), Delete("dstPts"), Delete("M"),
      CvCall("extractStickersFromWarped")>>

ExtractFinally == <<Delete("warped")>>

\* 0: stickers returned; otherwise the step that throws (caught, null returned)
ExtractOutcomes == {0} \cup ThrowPoints(ExtractBody, {"srcPts", "dstPts", "M"})

\* extractFaceColors with outcome t: the handles it leaves and whether stickers came back
ExtractRuns == [t \in ExtractOutcomes |-> Run(ExtractBody, ExtractFinally, t)]

extractFaceColorsRun(t) == [net |-> ExtractRuns[t].net, stickers |-> t = 0]

\* detectByEdgeGrid up to findContours
EdgeHead ==
    <<NewMat("gray"), NewMat("blurred"), NewMat("edges"), NewMat("dilated"),
      NewMat("contours"), NewMat("hierarchy"),
      CvCall("cvtColor, GaussianBlur, Canny"),
      NewMat("kernel"), CvCall("dilate"), Delete("kernel"),
      CvCall("findContours")>>

\* one contour of a loop that passes the area test
EdgeLoop == <<NewMat("approx"), CvCall("approxPolyDP"), Delete("approx")>>

\* the grid cluster returns after the first loop; otherwise the second loop runs
EdgeBody(result) ==
    IF result = "grid" THEN EdgeHead \o EdgeLoop ELSE EdgeHead \o EdgeLoop \o EdgeLoop

EdgeFinally ==
    <<Delete("gray"), Delete("blurred"), Delete("edges"), Delete("dilated"),
      Delete("contours"), Delete("hierarchy")>>

EdgeOutcomes ==
    {[result |-> r, t |-> 0] : r \in {"grid", "quad", "none"}}
      \cup {[result |-> "threw", t |-> k] : k \in ThrowPoints(EdgeBody("threw"), {})}

\* detectByColorBlobGrid
BlobBody ==
    <<NewMat("small"), NewMat("hsv"), NewMat("mask"), NewMat("morphed"),
      NewMat("contoursMat"), NewMat("hierarchyMat"),
      CvCall("resize"),
      NewMat("rgb"), CvCall("cvtColor, GaussianBlur, cvtColor"), Delete("rgb"),
      NewMat("lowColor"), NewMat("highColor"), CvCall("inRange"),
      Delete("lowColor"), Delete("highColor"),
      NewMat("whiteMask"), NewMat("lowW"), NewMat("highW"),
      CvCall("inRange, bitwise_or"),
      Delete("whiteMask"), Delete("lowW"), Delete("highW"),
      NewMat("kernelClose"), NewMat("kernelOpen"),
      CvCall("morphologyEx, morphologyEx"),
      Delete("kernelClose"), Delete("kernelOpen"),
      CvCall("findContours")>>

BlobFinally ==
    <<Delete("small"), Delete("hsv"), Delete("mask"), Delete("morphed"),
      Delete("contoursMat"), Delete("hierarchyMat")>>

BlobOutcomes ==
    {[result |-> r, t |-> 0] : r \in {"found", "none"}}
      \cup {[result |-> "threw", t |-> k] :
              k \in ThrowPoints(BlobBody, {})}

EdgeRuns == [e \in EdgeOutcomes |-> Run(EdgeBody(e.result), EdgeFinally, e.t)]

BlobRuns == [b \in BlobOutcomes |-> Run(BlobBody, BlobFinally, b.t)]

\* the quad each strategy returns
EdgeQuad == Quad0

BlobQuad == QuadFar

NotDetected == [detected |-> FALSE, corners |-> Null]

\* mutant: the color-blob strategy is tried first
detectFaceBlobFirst(edge, blob) ==
    LET b == BlobRuns[blob]
        e == EdgeRuns[edge]
    IN IF blob.result = "found"
       THEN [net |-> b.net, consulted |-> <<"blob">>, threw |-> FALSE,
             ret |-> [detected |-> TRUE, corners |-> BlobQuad]]
       ELSE IF e.threw
       THEN [net |-> Plus(b.net, e.net), consulted |-> <<"blob", "edge">>,
             threw |-> TRUE, ret |-> Null]
       ELSE [net |-> Plus(b.net, e.net), consulted |-> <<"blob", "edge">>,
             threw |-> FALSE,
             ret |-> IF edge.result = "none" THEN NotDetected
                     ELSE [detected |-> TRUE, corners |-> EdgeQuad]]

\* detectFace: the strategies consulted, the handles left, the result, and whether
\* an exception left it (detectByEdgeGrid has try/finally and no catch)
detectFace(edge, blob) ==
    LET e == EdgeRuns[edge]
        b == BlobRuns[blob]
    IN IF e.threw
       THEN [net |-> e.net, consulted |-> <<"edge">>, threw |-> TRUE, ret |-> Null]
       ELSE IF edge.result # "none"
       THEN [net |-> e.net, consulted |-> <<"edge">>, threw |-> FALSE,
             ret |-> [detected |-> TRUE, corners |-> EdgeQuad]]
       ELSE [net |-> Plus(e.net, b.net), consulted |-> <<"edge", "blob">>,
             threw |-> FALSE,
             ret |-> IF blob.result = "found"
                     THEN [detected |-> TRUE, corners |-> BlobQuad]
                     ELSE NotDetected]

\* number of frame callbacks SpecFrame runs
MaxRuns == 2

\* inputs that a path does not read
NoEdge == [result |-> "none", t |-> 0]

NoBlob == [result |-> "none", t |-> 0]

\* one invocation of processFrame with lockedCornersRef = locked and
\* lockFailCountRef = fails: in.ready is the test of line 52, in.imread whether
\* cv.imread returns, in.lockT and in.sampleT the outcomes of extractFaceColors
\* at lines 80 and 138, in.edge and in.blob those of the two strategies, and
\* in.exit what the voting and capture logic does with the stickers: the voted
\* face fails validateFaceColors ("invalid", the return of line 205), a color
\* shift or a capture unlocks the quad ("unlock", lines 159 and 238), or
\* neither ("end")
processFrameRun(locked, fails, in) ==
    IF ~in.ready \/ in.imread = "throws"
    THEN [net |-> NoMats, scheduled |-> TRUE, escaped |-> FALSE,
          outcome |-> IF ~in.ready THEN "notready" ELSE "imreadfailed",
          consulted |-> <<>>, detect |-> Null, locked |-> locked, fails |-> fails]
    ELSE
    LET lock == IF locked # Null THEN extractFaceColorsRun(in.lockT)
                ELSE [net |-> NoMats, stickers |-> FALSE]
        usedLockedPosition == locked # Null /\ lock.stickers
        det == IF usedLockedPosition
               THEN [net |-> NoMats, consulted |-> <<>>, threw |-> FALSE,
                     ret |-> NotDetected]
               ELSE detectFace(in.edge, in.blob)
        loc == LocateFace(locked, fails,
                          IF lock.stickers THEN <<"stickers">> ELSE Null,
                          IF ~det.threw /\ det.ret.detected
                          THEN det.ret.corners ELSE Null)
        sample == extractFaceColorsRun(in.sampleT)
        before == Plus(lock.net, det.net)
    IN IF det.threw
       THEN [net |-> Plus(Net(<<NewMat("frame")>>), before),
             scheduled |-> FALSE, escaped |-> TRUE,
             outcome |-> "threw", consulted |-> det.consulted, detect |-> Null,
             locked |-> loc.locked, fails |-> loc.fails]
       ELSE IF loc.corners = Null
       THEN [net |-> before, scheduled |-> TRUE,
             escaped |-> FALSE, outcome |-> "nodetect",
             consulted |-> det.consulted, detect |-> det.ret,
             locked |-> loc.locked, fails |-> loc.fails]
       ELSE [net |-> Plus(before, sample.net),
             scheduled |-> TRUE, escaped |-> FALSE,
             outcome |-> IF ~sample.stickers THEN "nosample" ELSE in.exit,
             consulted |-> det.consulted, detect |-> det.ret,
             locked |-> IF sample.stickers /\ in.exit = "unlock" THEN Null
                        ELSE loc.locked,
             fails |-> IF sample.stickers /\ in.exit = "unlock" THEN 0
                       ELSE loc.fails]

FrameInput(ready, imread, lockT, edge, blob, sampleT, exit) ==
    [ready |-> ready, imread |-> imread, lockT |-> lockT,
     edge |-> edge, blob |-> blob, sampleT |-> sampleT, exit |-> exit]

Exits == {"invalid", "unlock", "end"}

\* extractFaceColors at line 138 and what follows: a failed sample, or stickers
\* and one of the exits
SampleInputs ==
    {<<t, "end">> : t \in ExtractOutcomes \ {0}} \cup {<<0, x>> : x \in Exits}

\* what the two strategies do with the frame; a throwing color-blob strategy
\* is paired with the one edge outcome that lets it run
DetectInputs ==
    {<<e, b>> : e \in EdgeOutcomes, b \in {b \in BlobOutcomes : b.t = 0}}
      \cup {<<NoEdge, b>> : b \in BlobOutcomes}

QuadFound(d) ==
    \/ d[1].result \in {"grid", "quad"}
    \/ d[1].result = "none" /\ d[2].result = "found"

\* the inputs a path reads, the others at their defaults; with a locked quad
\* a successful extraction at line 80 succeeds again at line 138
FrameInputs(hasLock) ==
    {FrameInput(FALSE, "ok", 0, NoEdge, NoBlob, 0, "end"),
     FrameInput(TRUE, "throws", 0, NoEdge, NoBlob, 0, "end")}
      \cup (IF hasLock
            THEN {FrameInput(TRUE, "ok", 0, NoEdge, NoBlob, 0, x) : x \in Exits}
            ELSE {})
      \cup {FrameInput(TRUE, "ok", t, d[1], d[2], sm[1], sm[2]) :
              t \in IF hasLock THEN ExtractOutcomes \ {0} ELSE {0},
              d \in {q \in DetectInputs : QuadFound(q)},
              sm \in SampleInputs}
      \cup {FrameInput(TRUE, "ok", t, d[1], d[2], 0, "end") :
              t \in IF hasLock THEN ExtractOutcomes \ {0} ELSE {0},
              d \in {q \in DetectInputs : ~QuadFound(q)}}

InitFrame ==
    /\ InitRefs
    /\ cubeStore = initialState
    /\ votingBufferRef = NewFrameVotingBuffer(15, 7, 10)
    /\ obs = [op |-> "mount", runs |-> 0, edge |-> "", blob |-> "", outcome |-> "",
              escaped |-> FALSE, consulted |-> <<>>, detect |-> Null]

\* the browser runs a requested frame callback
RunFrame(in) ==
    /\ \E r \in {processFrameRun(lockedCornersRef, lockFailCountRef, in)} :
          /\ rafRef' = r.scheduled
          /\ mats' = Plus(mats, r.net)
          /\ lockedCornersRef' = r.locked
          /\ lockFailCountRef' = r.fails
          /\ obs' = [op |-> "frame", runs |-> obs.runs + 1,
                     edge |-> in.edge.result, blob |-> in.blob.result,
                     outcome |-> r.outcome, escaped |-> r.escaped,
                     consulted |-> r.consulted, detect |-> r.detect]
    /\ UNCHANGED <<now, lastCornersRef, stableStartRef, cooldownRef,
                   lastFrameColorsRef, scannerStore, cubeStore, votingBufferRef,
                   solverStore, solver, player, camera>>

NextFrame ==
    /\ rafRef
    /\ obs.runs < MaxRuns
    /\ \E in \in FrameInputs(lockedCornersRef # Null) : RunFrame(in)

SpecFrame == InitFrame /\ [][NextFrame]_vars

\* C14: every invocation of the frame callback ends with the next frame
\* callback scheduled and no exception escaping it
C14_NextFrameAlwaysScheduled ==
    obs.op = "frame" => rafRef /\ ~obs.escaped

\* C16: every native handle acquired while processing a frame is released
\* before the frame's processing ends: none is live between two frames
C16_NoHandleOutlivesFrame ==
    obs.op = "frame" => \A h \in Handles : mats[h] = 0

\* detectFace was called in the last frame and returned
DetectReturned ==
    obs.op = "frame" /\ obs.consulted # <<>> /\ obs.outcome # "threw"

C21_DetectFaceNeverThrows ==
    obs.op = "frame" /\ obs.consulted # <<>> =>
        /\ obs.outcome # "threw"
        /\ obs.edge \notin {"grid", "quad"} /\ obs.blob # "found" =>
              obs.detect = NotDetected

(***************************************************************************)
(* SpecResolve: resolveConfusablePair(items, "R", "O") applied to every    *)
(* list of 1 to MaxItems stickers drawn from ItemPool.  Distances are      *)
(* integers here (CIEDE2000 values in the program); the comparisons are    *)
(* the program's, those on a quotient written without the division.        *)
(***************************************************************************)

\* ALL_COLORS.indexOf(color), 1-based
ColorIndex(color) == CHOOSE k \in 1..Len(ColorOrder) : ColorOrder[k] = color

\* indices of the stickers assigned colorA or colorB, ascending
Candidates(items, colorA, colorB) ==
    SelectSeq([i \in 1..Len(items) |-> i],
              LAMBDA i : items[i].color = colorA \/ items[i].color = colorB)

RECURSIVE SumDist(_, _, _, _)
SumDist(items, candidates, idx, k) ==
    IF k > Len(candidates) THEN 0
    ELSE items[candidates[k]].dists[idx] + SumDist(items, candidates, idx, k + 1)

\* the loop that finds the first largest gap of the sorted scores
RECURSIVE BestGap(_, _, _, _)
BestGap(sortedScores, i, bestGap, bestGapIdx) ==
    IF i > Len(sortedScores) - 1 THEN bestGapIdx
    ELSE LET gap == sortedScores[i + 1] - sortedScores[i]
         IN IF gap > bestGap
            THEN BestGap(sortedScores, i + 1, gap, i)
            ELSE BestGap(sortedScores, i + 1, bestGap, bestGapIdx)

\* the split at the largest gap: score < threshold, threshold being the mean
\* of the two scores around the gap
SplitAtGap(items, candidates, scores, colorA, colorB) ==
    LET sortedScores == SortSeq(scores, LAMBDA a, b : a < b)
        bestGapIdx == BestGap(sortedScores, 1, 0, 1)
        twiceThreshold == sortedScores[bestGapIdx] + sortedScores[bestGapIdx + 1]
    IN [i \in 1..Len(items) |->
          IF \E k \in 1..Len(candidates) : candidates[k] = i
          THEN LET k == CHOOSE k \in 1..Len(candidates) : candidates[k] = i
               IN [items[i] EXCEPT
                     !.color = IF 2 * scores[k] < twiceThreshold THEN colorA
                               ELSE colorB]
          ELSE items[i]]

\* mutant: the spread of the scores is not examined
resolveConfusablePairAlwaysSplit(items, colorA, colorB) ==
    LET idxA == ColorIndex(colorA)
        idxB == ColorIndex(colorB)
        candidates == Candidates(items, colorA, colorB)
        scores == [k \in 1..Len(candidates) |->
                     items[candidates[k]].dists[idxA] - items[candidates[k]].dists[idxB]]
    IN IF Len(candidates) < 2 THEN items
       ELSE SplitAtGap(items, candidates, scores, colorA, colorB)

\* resolveConfusablePair: the items afterwards
resolveConfusablePair(items, colorA, colorB) ==
    LET idxA == ColorIndex(colorA)
        idxB == ColorIndex(colorB)
        candidates == Candidates(items, colorA, colorB)
        scores == [k \in 1..Len(candidates) |->
                     items[candidates[k]].dists[idxA] - items[candidates[k]].dists[idxB]]
        minScore == CHOOSE x \in {scores[k] : k \in DOMAIN scores} :
                        \A k \in DOMAIN scores : x <= scores[k]
        maxScore == CHOOSE x \in {scores[k] : k \in DOMAIN scores} :
                        \A k \in DOMAIN scores : x >= scores[k]
        spread == maxScore - minScore
        color == IF SumDist(items, candidates, idxA, 1)
                      < SumDist(items, candidates, idxB, 1)
                 THEN colorA ELSE colorB
    IN IF Len(candidates) < 2 THEN items
       ELSE IF spread < 3
       THEN [i \in 1..Len(items) |->
               IF items[i].color = colorA \/ items[i].color = colorB
               THEN [items[i] EXCEPT !.color = color] ELSE items[i]]
       ELSE SplitAtGap(items, candidates, scores, colorA, colorB)

\* longest sticker list given to resolveConfusablePair
MaxItems == 3

\* distances to R and to O; the other references are far
DistPairs == {<<0, 6>>, <<2, 3>>, <<3, 2>>, <<5, 1>>}

FarDist == 20

ItemPool ==
    {[color |-> c, dists |-> <<p[1], p[2], FarDist, FarDist, FarDist, FarDist>>] :
        c \in {"R", "O", "W"}, p \in DistPairs}

ResolveInputs == UNION {[1..n -> ItemPool] : n \in 1..MaxItems}

InitResolve ==
    /\ InitRefs
    /\ cubeStore = initialState
    /\ votingBufferRef = NewFrameVotingBuffer(15, 7, 10)
    /\ obs \in {[op |-> "input", items |-> items, ret |-> Null] :
                  items \in ResolveInputs}

ResolveCall ==
    /\ obs.op = "input"
    /\ obs' = [obs EXCEPT !.op = "resolveConfusablePair",
                          !.ret = resolveConfusablePair(obs.items, "R", "O")]
    /\ UNCHANGED <<scanRefs, cubeStore, votingBufferRef>>

NextResolve == ResolveCall

SpecResolve == InitResolve /\ [][NextResolve]_vars

\* the stickers assigned R or O before the call
RedOrOrange == {i \in DOMAIN obs.items : obs.items[i].color \in {"R", "O"}}

\* distance to R minus distance to O
Score(i) == obs.items[i].dists[1] - obs.items[i].dists[2]

ScoreSpread ==
    LET all == {Score(i) : i \in RedOrOrange}
    IN (CHOOSE x \in all : \A y \in all : y <= x)
         - (CHOOSE x \in all : \A y \in all : x <= y)

\* pairs of scores with no score between them
Neighbours ==
    LET all == {Score(i) : i \in RedOrOrange}
    IN {p \in all \X all : p[1] < p[2] /\ ~\E z \in all : p[1] < z /\ z < p[2]}

RECURSIVE TotalDist(_, _)
TotalDist(set, idx) ==
    IF set = {} THEN 0
    ELSE LET i == CHOOSE i \in set : TRUE
         IN obs.items[i].dists[idx] + TotalDist(set \ {i}, idx)

Pt(x, y) == [x |-> x, y |-> y]

\* Array.prototype.sort by a numeric key (stable): keys[i] is the key of seq[i]
SortByKey(seq, keys) ==
    LET tagged == [i \in DOMAIN seq |-> [key |-> keys[i], idx |-> i]]
        sorted == SortSeq(tagged, LAMBDA a, b :
                            a.key < b.key \/ (a.key = b.key /\ a.idx < b.idx))
    IN [i \in DOMAIN seq |-> seq[sorted[i].idx]]

\* mutant: the two middle points of the sum order are not sorted by x - y
orderCornersBySumOnly(corners) ==
    LET sorted == SortByKey(corners, [i \in DOMAIN corners |-> corners[i].x + corners[i].y])
    IN <<sorted[1], sorted[2], sorted[4], sorted[3]>>

orderCorners(corners) ==
    LET sorted == SortByKey(corners, [i \in DOMAIN corners |-> corners[i].x + corners[i].y])
        topLeft == sorted[1]
        bottomRight == sorted[4]
        remaining == SortByKey(<<sorted[2], sorted[3]>>,
                               <<sorted[2].x - sorted[2].y, sorted[3].x - sorted[3].y>>)
        bottomLeft == remaining[1]
        topRight == remaining[2]
    IN <<topLeft, topRight, bottomRight, bottomLeft>>

\* dist(a, b) squared
Dist2(a, b) == (a.x - b.x) * (a.x - b.x) + (a.y - b.y) * (a.y - b.y)

SetMax(set) == CHOOSE m \in set : \A n \in set : n <= m

SetMin(set) == CHOOSE m \in set : \A n \in set : m <= n

\* isRoughlySquare with threshold num / den: minSide / maxSide > threshold
isRoughlySquare(corners, num, den) ==
    LET ordered == orderCorners(corners)
        sides2 == {Dist2(ordered[i], ordered[(i % 4) + 1]) : i \in 1..4}
    IN den * den * SetMin(sides2) > num * num * SetMax(sides2)

\* twice the signed sum of quadArea before Math.abs and the division by 2
RECURSIVE Shoelace(_, _)
Shoelace(corners, i) ==
    IF i > Len(corners) THEN 0
    ELSE LET j == (i % Len(corners)) + 1
         IN corners[i].x * corners[j].y - corners[j].x * corners[i].y
              + Shoelace(corners, i + 1)

\* quadArea, doubled
quadArea2(corners) == Abs(Shoelace(corners, 1))

isPointInsideQuad(px, py, quad) ==
    LET ordered == orderCorners(quad)
    IN \A i \in 1..4 :
          LET a == ordered[i]
              b == ordered[(i % 4) + 1]
          IN ~((b.x - a.x) * (py - a.y) - (b.y - a.y) * (px - a.x) < 0)

\* the second loop of detectByEdgeGrid: contour i is [area, approx, convex],
\* approx the vertices approxPolyDP returned, in its order
RECURSIVE LargestQuad(_, _, _, _, _, _)
LargestQuad(contours, squares, frameArea, i, bestArea, bestCorners) ==
    IF i > Len(contours) THEN bestCorners
    ELSE LET c == contours[i]
             skip == 100 * c.area < 3 * frameArea \/ c.area <= bestArea
             innerCount ==
                 Cardinality({k \in DOMAIN squares :
                                isPointInsideQuad(squares[k].cx, squares[k].cy, c.approx)})
         IN IF /\ ~skip
               /\ Len(c.approx) = 4 /\ c.convex
               /\ isRoughlySquare(c.approx, 1, 2)
               /\ innerCount >= 3
            THEN LargestQuad(contours, squares, frameArea, i + 1, c.area, c.approx)
            ELSE LargestQuad(contours, squares, frameArea, i + 1, bestArea, bestCorners)

\* Math.round(n / d) for d > 0: halves go up
Round(n, d) == (2 * n + d) \div (2 * d)

\* checkGridPattern: the corners, or Null.  The squares are taken in (cy, cx)
\* order and a cell keeps the first square that lands in it, so assigned is
\* the number of cells hit.  margin = cellW * 0.85 = xSpan * 17 / 40, a whole
\* number for the spans drawn here.
checkGridPattern(cluster) ==
    LET xCoords == {cluster[i].cx : i \in DOMAIN cluster}
        yCoords == {cluster[i].cy : i \in DOMAIN cluster}
        xMin == SetMin(xCoords)
        xMax == SetMax(xCoords)
        yMin == SetMin(yCoords)
        yMax == SetMax(yCoords)
        xSpan == xMax - xMin
        ySpan == yMax - yMin
        lo == IF xSpan < ySpan THEN xSpan ELSE ySpan
        hi == IF xSpan < ySpan THEN ySpan ELSE xSpan
        cells == {<<Round(2 * (cluster[i].cy - yMin), ySpan),
                    Round(2 * (cluster[i].cx - xMin), xSpan)>> : i \in DOMAIN cluster}
        assigned == Cardinality({c \in cells : c[1] \in 0..2 /\ c[2] \in 0..2})
        margin == (17 * xSpan) \div 40
    IN IF xSpan = 0 \/ ySpan = 0 THEN Null
       ELSE IF 100 * lo < 45 * hi THEN Null
       ELSE IF assigned < 7 THEN Null
       ELSE <<Pt(xMin - margin, yMin - margin), Pt(xMax + margin, yMin - margin),
              Pt(xMax + margin, yMax + margin), Pt(xMin - margin, yMax + margin)>>

\* findBlobGrid: the blobs near the candidate center ci that pass the distance
\* and size tests (d >= 0.4 * sqrt(area), d <= 7 * sqrt(area), area ratio
\* between 0.2 and 5), sorted by distance; as indices into blobs
nearby(blobs, ci) ==
    LET center == blobs[ci]
        d2(i) == (blobs[i].cx - center.cx) * (blobs[i].cx - center.cx)
                   + (blobs[i].cy - center.cy) * (blobs[i].cy - center.cy)
        kept == SelectSeq([i \in DOMAIN blobs |-> i],
                          LAMBDA i : /\ i # ci
                                     /\ 25 * d2(i) >= 4 * center.area
                                     /\ d2(i) <= 49 * center.area
                                     /\ 5 * blobs[i].area > center.area
                                     /\ blobs[i].area < 5 * center.area)
    IN SortByKey(kept, [k \in DOMAIN kept |-> d2(kept[k])])

\* Math.round(n / d) for any d # 0
RoundSigned(n, d) == IF d < 0 THEN Round(-n, -d) ELSE Round(n, d)

\* one pair of axis vectors tried around center ci: near[i] and near[j].  ok
\* says that the pair passes the angle, magnitude and determinant tests and
\* fills at least 6 cells; centerDist2 is the squared distance of the center
\* from the middle of the frame, times 4.  1.6 times an axis is a whole number
\* for the spacings drawn here.
blobCandidate(blobs, frameW, frameH, ci, near, i, j) ==
    LET center == blobs[ci]
        ax1 == [dx |-> blobs[near[i]].cx - center.cx, dy |-> blobs[near[i]].cy - center.cy]
        ax2 == [dx |-> blobs[near[j]].cx - center.cx, dy |-> blobs[near[j]].cy - center.cy]
        d1 == ax1.dx * ax1.dx + ax1.dy * ax1.dy
        d2 == ax2.dx * ax2.dx + ax2.dy * ax2.dy
        dot == ax1.dx * ax2.dx + ax1.dy * ax2.dy
        lo == IF d1 < d2 THEN d1 ELSE d2
        hi == IF d1 < d2 THEN d2 ELSE d1
        det == ax1.dx * ax2.dy - ax1.dy * ax2.dx
        hit(k) ==
            LET dx == blobs[near[k]].cx - center.cx
                dy == blobs[near[k]].cy - center.cy
                ri == RoundSigned(dx * ax2.dy - dy * ax2.dx, det)
                ci2 == RoundSigned(ax1.dx * dy - ax1.dy * dx, det)
                ex == dx - (ri * ax1.dx + ci2 * ax2.dx)
                ey == dy - (ri * ax1.dy + ci2 * ax2.dy)
            IN [cell |-> <<1 + ri, 1 + ci2>>,
                near |-> 400 * (ex * ex + ey * ey) <= 81 * hi]
        filled == {<<1, 1>>} \cup
                  {hit(k).cell : k \in {k \in DOMAIN near :
                       /\ hit(k).cell[1] \in 0..2 /\ hit(k).cell[2] \in 0..2
                       /\ hit(k).near}}
        at(a, b) == Pt(center.cx + (a * 8 * ax1.dx) \div 5 + (b * 8 * ax2.dx) \div 5,
                       center.cy + (a * 8 * ax1.dy) \div 5 + (b * 8 * ax2.dy) \div 5)
        gates == /\ 4 * dot * dot <= d1 * d2
                 /\ ~(400 * lo < 49 * hi)
                 /\ det # 0
    IN [ok |-> gates /\ Cardinality(filled) >= 6,
        corners |-> <<at(-1, -1), at(-1, 1), at(1, 1), at(1, -1)>>,
        filledCount |-> IF gates THEN Cardinality(filled) ELSE 0,
        order |-> <<ci, i, j>>,
        centerDist2 |-> (2 * center.cx - frameW) * (2 * center.cx - frameW)
                          + (2 * center.cy - frameH) * (2 * center.cy - frameH)]

\* score > best.score, with score = (filledCount / 9) * 0.6 + (1 - centerDist /
\* maxFrameDist) * 0.4, on the squared distances: (f1 - f2) * sqrt(m2) against
\* 6 * (sqrt(q1) - sqrt(q2))
ScoreGreater(f1, q1, f2, q2, m2) ==
    LET a == f1 - f2
        k == 36 * (q1 + q2) - a * a * m2
    IN IF a >= 0 /\ q1 <= q2 THEN a > 0 \/ q1 < q2
       ELSE IF a <= 0 /\ q1 >= q2 THEN FALSE
       ELSE IF a > 0 THEN k < 0 \/ 5184 * q1 * q2 > k * k
       ELSE k > 0 /\ 5184 * q1 * q2 < k * k

\* a comes before b in the loops over ci, i and j
TriedBefore(a, b) ==
    \/ a[1] < b[1]
    \/ a[1] = b[1] /\ a[2] < b[2]
    \/ a[1] = b[1] /\ a[2] = b[2] /\ a[3] < b[3]

\* findBlobGrid: bestResult is replaced only by a strictly larger score, so it
\* ends as the first candidate, in loop order, of the largest score
findBlobGrid(blobs, frameW, frameH) ==
    LET m2 == frameW * frameW + frameH * frameH
        tried == UNION {
            LET near == nearby(blobs, ci)
                closest == IF Len(near) < 12 THEN Len(near) ELSE 12
            IN IF Len(near) < 4 THEN {}
               ELSE {blobCandidate(blobs, frameW, frameH, ci, near, i, j) :
                       <<i, j>> \in {p \in (1..closest) \X (1..closest) : p[1] < p[2]}}
            : ci \in DOMAIN blobs}
        passed == {c \in tried : c.ok}
        Greater(c, d) == ScoreGreater(c.filledCount, c.centerDist2,
                                      d.filledCount, d.centerDist2, m2)
    IN IF Len(blobs) < 5 \/ passed = {} THEN Null
       ELSE (CHOOSE c \in passed :
                \A d \in passed \ {c} :
                    /\ ~Greater(d, c)
                    /\ Greater(c, d) \/ TriedBefore(c.order, d.order)).corners

\* detectByColorBlobGrid after the blobs are collected: the grid corners scaled
\* back by 1 / scale (a whole number here: 1, or 2 for a frame 640 wide)
blobGridCorners(blobs, sCols, sRows, upscale) ==
    LET gridResult == findBlobGrid(blobs, sCols, sRows)
    IN IF Len(blobs) < 5 \/ gridResult = Null THEN Null
       ELSE [i \in 1..4 |-> Pt(gridResult[i].x * upscale, gridResult[i].y * upscale)]

\* nine stickers of the given area on a grid around (cx, cy), row by row from
\* the top left
GridBlobs(cx, cy, dx, dy, area) ==
    [k \in 1..9 |-> [cx |-> cx + (((k - 1) % 3) - 1) * dx,
                     cy |-> cy + (((k - 1) \div 3) - 1) * dy,
                     area |-> area]]

\* the sequence without the elements at the positions in drop
Without(seq, drop) ==
    LET kept == SelectSeq([i \in DOMAIN seq |-> i], LAMBDA i : i \notin drop)
    IN [k \in DOMAIN kept |-> seq[kept[k]]]

Reverse(seq) == [i \in DOMAIN seq |-> seq[Len(seq) + 1 - i]]

\* seq started at position k
Rotate(seq, k) == [i \in DOMAIN seq |-> seq[((i + k - 2) % Len(seq)) + 1]]

\* most squares missing from a cluster given to checkGridPattern
MaxMissing == 2

\* clusters for checkGridPattern: grids of sticker squares (spans 40 and 80)
\* with up to MaxMissing squares undetected
ClusterInputs ==
    {Without(GridBlobs(160, 120, g[1], g[2], 300), drop) :
        g \in {<<20, 20>>, <<40, 40>>, <<40, 20>>, <<20, 40>>, <<40, 15>>},
        drop \in {d \in SUBSET (1..9) : Cardinality(d) <= MaxMissing}}

\* the frame of the edge strategy
FrameArea == 320 * 240

\* vertices of quads as approxPolyDP may list them: either direction, any start
ApproxInputs ==
    {Rotate(q, k) : k \in 1..4,
        q \in {<<Pt(100, 60), Pt(220, 60), Pt(220, 180), Pt(100, 180)>>,
               <<Pt(100, 60), Pt(100, 180), Pt(220, 180), Pt(220, 60)>>,
               <<Pt(110, 50), Pt(230, 70), Pt(210, 190), Pt(90, 170)>>,
               <<Pt(110, 50), Pt(90, 170), Pt(210, 190), Pt(230, 70)>>,
               <<Pt(160, 120), Pt(160, 120), Pt(160, 120), Pt(160, 120)>>}}

\* contour lists for the fallback loop, with 0, 3 or 9 sticker squares found
FallbackInputs ==
    {[contours |-> <<[area |-> a, approx |-> q, convex |-> TRUE]>>,
      squares |-> sq] :
        a \in {200, 14000}, q \in ApproxInputs,
        sq \in {<<>>, SubSeq(GridBlobs(160, 120, 40, 40, 300), 4, 6),
                GridBlobs(160, 120, 40, 40, 300)}}

\* blob lists for the color-blob strategy on a 200 x 160 image: a grid of 9
\* stickers in the order findContours may list them, or with the first missing
BlobInputs ==
    {[blobs |-> b, upscale |-> u] :
        u \in {1, 2},
        b \in UNION {{g, Reverse(g), Rotate(g, 4), Tail(g), Tail(Reverse(g))} :
                       g \in {GridBlobs(100, 80, 15, 15, 100),
                              GridBlobs(100, 80, 20, 15, 100),
                              GridBlobs(90, 80, 15, 15, 100)}}}

\* the input of one path; the fields the path does not read are empty
QuadInput(path, cluster, contours, squares, upscale) ==
    [op |-> "input", path |-> path, cluster |-> cluster, contours |-> contours,
     squares |-> squares, upscale |-> upscale, quad |-> Null]

InitQuad ==
    /\ InitRefs
    /\ cubeStore = initialState
    /\ votingBufferRef = NewFrameVotingBuffer(15, 7, 10)
    /\ obs \in {QuadInput("grid", c, <<>>, <<>>, 1) : c \in ClusterInputs}
          \cup {QuadInput("fallback", <<>>, f.contours, f.squares, 1) :
                  f \in FallbackInputs}
          \cup {QuadInput("blob", <<>>, <<>>, b.blobs, b.upscale) :
                  b \in BlobInputs}

\* findGridCluster hands a cluster of at least 7 squares to checkGridPattern
GridCall ==
    /\ obs.op = "input" /\ obs.path = "grid"
    /\ Len(obs.cluster) >= 7
    /\ obs' = [obs EXCEPT !.op = "detect", !.quad = checkGridPattern(obs.cluster)]
    /\ UNCHANGED <<scanRefs, cubeStore, votingBufferRef>>

FallbackCall ==
    /\ obs.op = "input" /\ obs.path = "fallback"
    /\ obs' = [obs EXCEPT !.op = "detect",
                 !.quad = LargestQuad(obs.contours, obs.squares,
                                      FrameArea, 1, 0, Null)]
    /\ UNCHANGED <<scanRefs, cubeStore, votingBufferRef>>

BlobCall ==
    /\ obs.op = "input" /\ obs.path = "blob"
    /\ obs' = [obs EXCEPT !.op = "detect",
                 !.quad = blobGridCorners(obs.squares, 200, 160, obs.upscale)]
    /\ UNCHANGED <<scanRefs, cubeStore, votingBufferRef>>

NextQuad == GridCall \/ FallbackCall \/ BlobCall

SpecQuad == InitQuad /\ [][NextQuad]_vars

\* top-left, top-right, bottom-right, bottom-left
Canonical(quad) ==
    /\ \A i \in 1..4 : quad[1].x + quad[1].y <= quad[i].x + quad[i].y
    /\ \A i \in 1..4 : quad[3].x + quad[3].y >= quad[i].x + quad[i].y
    /\ quad[2].x - quad[2].y > quad[4].x - quad[4].y

\* C22: every quad the detector returns, from the grid cluster, the
\* largest-contour fallback or the color-blob grid, has non-zero area and its
\* corners in the order top-left, top-right, bottom-right, bottom-left
C22_QuadsCanonical ==
    obs.op = "detect" /\ obs.quad # Null =>
        /\ quadArea2(obs.quad) > 0
        /\ Canonical(obs.quad)

(***************************************************************************)
(* SpecCube: the cubie model.  The solver screen builds the cubies from    *)
(* six faces (generateCubies, assignColorsFromFaces) and stores them; the  *)
(* store turns faces with rotateFace.  obs keeps the faces the cubies were *)
(* built from, the number of moves applied, the last move, and the         *)
(* reference cube (cubejs) after the moves of the same names.              *)
(***************************************************************************)

CubieFaces == {"top", "bottom", "front", "back", "right", "left"}

NoColors == [s \in CubieFaces |-> ""]

Coords == <<-1, 0, 1>>

Pos(x, y, z) == [x |-> x, y |-> y, z |-> z]

\* the 26 cubies in the order of the x, y, z loops, the centre skipped
generateCubies ==
    LET all == [i \in 1..27 |->
                   Pos(Coords[((i - 1) \div 9) + 1],
                       Coords[(((i - 1) \div 3) % 3) + 1],
                       Coords[((i - 1) % 3) + 1])]
        kept == SelectSeq(all, LAMBDA p : p # Pos(0, 0, 0))
    IN  [i \in 1..Len(kept) |-> [position |-> kept[i], colors |-> NoColors]]

\* the side of a cubie that assignColorsFromFaces writes for each face
FaceSide ==
    [U |-> "top", D |-> "bottom", F |-> "front", B |-> "back",
     R |-> "right", L |-> "left"]

\* the positions tables of assignColorsFromFaces, sticker 0 first
AssignPositions ==
    [U |-> <<Pos(-1, 1, -1), Pos(0, 1, -1), Pos(1, 1, -1),
             Pos(-1, 1, 0),  Pos(0, 1, 0),  Pos(1, 1, 0),
             Pos(-1, 1, 1),  Pos(0, 1, 1),  Pos(1, 1, 1)>>,
     D |-> <<Pos(-1, -1, 1),  Pos(0, -1, 1),  Pos(1, -1, 1),
             Pos(-1, -1, 0),  Pos(0, -1, 0),  Pos(1, -1, 0),
             Pos(-1, -1, -1), Pos(0, -1, -1), Pos(1, -1, -1)>>,
     F |-> <<Pos(-1, 1, 1),  Pos(0, 1, 1),  Pos(1, 1, 1),
             Pos(-1, 0, 1),  Pos(0, 0, 1),  Pos(1, 0, 1),
             Pos(-1, -1, 1), Pos(0, -1, 1), Pos(1, -1, 1)>>,
     B |-> <<Pos(1, 1, -1),  Pos(0, 1, -1),  Pos(-1, 1, -1),
             Pos(1, 0, -1),  Pos(0, 0, -1),  Pos(-1, 0, -1),
             Pos(1, -1, -1), Pos(0, -1, -1), Pos(-1, -1, -1)>>,
     R |-> <<Pos(1, 1, -1),  Pos(1, 1, 0),  Pos(1, 1, 1),
             Pos(1, 0, -1),  Pos(1, 0, 0),  Pos(1, 0, 1),
             Pos(1, -1, -1), Pos(1, -1, 0), Pos(1, -1, 1)>>,
     L |-> <<Pos(-1, 1, 1),  Pos(-1, 1, 0),  Pos(-1, 1, -1),
             Pos(-1, 0, 1),  Pos(-1, 0, 0),  Pos(-1, 0, -1),
             Pos(-1, -1, 1), Pos(-1, -1, 0), Pos(-1, -1, -1)>>]

\* the positions tables of the facelet reader, sticker 0 first
ReaderPositions ==
    [U |-> <<Pos(-1, 1, -1), Pos(0, 1, -1), Pos(1, 1, -1),
             Pos(-1, 1, 0),  Pos(0, 1, 0),  Pos(1, 1, 0),
             Pos(-1, 1, 1),  Pos(0, 1, 1),  Pos(1, 1, 1)>>,
     R |-> <<Pos(1, 1, 1),  Pos(1, 1, 0),  Pos(1, 1, -1),
             Pos(1, 0, 1),  Pos(1, 0, 0),  Pos(1, 0, -1),
             Pos(1, -1, 1), Pos(1, -1, 0), Pos(1, -1, -1)>>,
     F |-> <<Pos(-1, 1, 1),  Pos(0, 1, 1),  Pos(1, 1, 1),
             Pos(-1, 0, 1),  Pos(0, 0, 1),  Pos(1, 0, 1),
             Pos(-1, -1, 1), Pos(0, -1, 1), Pos(1, -1, 1)>>,
     D |-> <<Pos(-1, -1, 1),  Pos(0, -1, 1),  Pos(1, -1, 1),
             Pos(-1, -1, 0),  Pos(0, -1, 0),  Pos(1, -1, 0),
             Pos(-1, -1, -1), Pos(0, -1, -1), Pos(1, -1, -1)>>,
     L |-> <<Pos(-1, 1, -1),  Pos(-1, 1, 0),  Pos(-1, 1, 1),
             Pos(-1, 0, -1),  Pos(-1, 0, 0),  Pos(-1, 0, 1),
             Pos(-1, -1, -1), Pos(-1, -1, 0), Pos(-1, -1, 1)>>,
     B |-> <<Pos(1, 1, -1),  Pos(0, 1, -1),  Pos(-1, 1, -1),
             Pos(1, 0, -1),  Pos(0, 0, -1),  Pos(-1, 0, -1),
             Pos(1, -1, -1), Pos(0, -1, -1), Pos(-1, -1, -1)>>]

\* assignColorsFromFaces with the positions tables given: for each face
\* present, sticker i colours the face's side of the cubie at positions[i].
\* faces maps a face name to the colours of its nine stickers.
AssignWith(positions, cubies, faces) ==
    [k \in 1..Len(cubies) |->
        [cubies[k] EXCEPT !.colors =
            [s \in CubieFaces |->
                LET f == CHOOSE g \in FaceNames : FaceSide[g] = s
                    at == {i \in 1..9 : positions[f][i] = cubies[k].position}
                IN  IF f \in DOMAIN faces /\ at # {}
                    THEN faces[f][CHOOSE i \in at : TRUE]
                    ELSE cubies[k].colors[s]]]]

\* assignColorsFromFaces as the test file carries it, with the reader's tables
assignColorsFromFacesTest(cubies, faces) ==
    AssignWith(ReaderPositions, cubies, faces)

assignColorsFromFaces(cubies, faces) ==
    AssignWith(AssignPositions, cubies, faces)

findCubie(cubies, p) ==
    LET at == {k \in 1..Len(cubies) : cubies[k].position = p}
    IN  IF at = {} THEN Null ELSE cubies[CHOOSE k \in at : TRUE]

\* the colours of face f's nine stickers read from the cubies in facelet
\* order ("" where a cubie or a colour is missing)
faceStickers(cubies, f) ==
    [i \in 1..9 |->
        LET c == findCubie(cubies, ReaderPositions[f][i])
        IN  IF c = Null THEN "" ELSE c.colors[FaceSide[f]]]

\* buildKociembaStringFromCubies: the 54 face letters, or Null
buildKociembaStringFromCubies(cubies) ==
    LET colors == [p \in 1..54 |->
                      faceStickers(cubies,
                          KOCIEMBA_FACE_ORDER[((p - 1) \div 9) + 1])[((p - 1) % 9) + 1]]
    IN  IF \E p \in 1..54 : colors[p] \notin Colors
        THEN Null
        ELSE [p \in 1..54 |-> DEFAULT_CENTER_MAP[colors[p]]]

\* cubiePositionToStickerIndex, 0-based as in the source
cubiePositionToStickerIndex(faceName, pos) ==
    LET up(v) == IF v = -1 THEN 0 ELSE IF v = 0 THEN 1 ELSE 2
        down(v) == IF v = 1 THEN 0 ELSE IF v = 0 THEN 1 ELSE 2
        row == CASE faceName = "U" -> up(pos.z)
                 [] faceName = "D" -> down(pos.z)
                 [] OTHER -> down(pos.y)
        col == CASE faceName \in {"U", "D", "F"} -> up(pos.x)
                 [] faceName = "B" -> down(pos.x)
                 [] faceName = "R" -> down(pos.z)
                 [] faceName = "L" -> up(pos.z)
    IN  row * 3 + col

\* the face a cubie side shows on
cubieFaceToFaceName(side) == CHOOSE g \in FaceNames : FaceSide[g] = side

\* face f's stickers as the editor indexes them: sticker
\* cubiePositionToStickerIndex(f, position) is the colour of that cubie's
\* side on f
editorStickers(cubies, f) ==
    [i \in 1..9 |->
        LET on == {k \in 1..Len(cubies) :
                      /\ cubies[k].colors[FaceSide[f]] # ""
                      /\ cubiePositionToStickerIndex(f, cubies[k].position) = i - 1}
        IN  IF on = {} THEN "" ELSE cubies[CHOOSE k \in on : TRUE].colors[FaceSide[f]]]

\* rotateFace's axis and layer of a face
FaceAxis(face) ==
    IF face \in {"U", "D"} THEN "y" ELSE IF face \in {"R", "L"} THEN "x" ELSE "z"

FaceLayer(face) == IF face \in {"U", "R", "F"} THEN 1 ELSE -1

\* one pass of rotateFace's loop body over a cubie of the layer: a clockwise
\* quarter turn of its position and of the colours on its sides
QuarterTurn(cubie, axis, layer) ==
    LET p == cubie.position
        c == cubie.colors
    IN  IF axis = "y" THEN
            IF layer = 1
            THEN [position |-> Pos(-p.z, p.y, p.x),
                  colors |-> [c EXCEPT !.right = c.back, !.front = c.right,
                                       !.left = c.front, !.back = c.left]]
            ELSE [position |-> Pos(p.z, p.y, -p.x),
                  colors |-> [c EXCEPT !.right = c.front, !.back = c.right,
                                       !.left = c.back, !.front = c.left]]
        ELSE IF axis = "x" THEN
            IF layer = 1
            THEN [position |-> Pos(p.x, p.z, -p.y),
                  colors |-> [c EXCEPT !.top = c.front, !.back = c.top,
                                       !.bottom = c.back, !.front = c.bottom]]
            ELSE [position |-> Pos(p.x, -p.z, p.y),
                  colors |-> [c EXCEPT !.top = c.back, !.front = c.top,
                                       !.bottom = c.front, !.back = c.bottom]]
        ELSE
            IF layer = 1
            THEN [position |-> Pos(p.y, -p.x, p.z),
                  colors |-> [c EXCEPT !.right = c.top, !.bottom = c.right,
                                       !.left = c.bottom, !.top = c.left]]
            ELSE [position |-> Pos(-p.y, p.x, p.z),
                  colors |-> [c EXCEPT !.left = c.top, !.bottom = c.left,
                                       !.right = c.bottom, !.top = c.right]]

\* the loop of rotateFace run times times (1, 2 or 3)
Turned(cubie, axis, layer, times) ==
    LET t1 == QuarterTurn(cubie, axis, layer)
        t2 == QuarterTurn(t1, axis, layer)
        t3 == QuarterTurn(t2, axis, layer)
    IN  IF times = 1 THEN t1 ELSE IF times = 2 THEN t2 ELSE t3

\* rotateFace with every dir taken as a clockwise quarter turn
rotateFaceQuarterOnly(cubies, face, dir) ==
    [k \in 1..Len(cubies) |->
        IF cubies[k].position[FaceAxis(face)] # FaceLayer(face)
        THEN cubies[k]
        ELSE Turned(cubies[k], FaceAxis(face), FaceLayer(face), 1)]

\* rotateFace: dir 1 clockwise, -1 counter-clockwise, 2 a half turn
rotateFace(cubies, face, dir) ==
    LET axis == FaceAxis(face)
        layer == FaceLayer(face)
        times == IF dir = 2 THEN 2 ELSE IF dir = -1 THEN 3 ELSE 1
    IN  [k \in 1..Len(cubies) |->
            IF cubies[k].position[axis] # layer
            THEN cubies[k]
            ELSE Turned(cubies[k], axis, layer, times)]

\* parseMove of a face letter with suffix "", "'" or "2"
parseMove(face, suffix) ==
    [face |-> face, direction |-> IF suffix = "'" THEN -1 ELSE 1,
     double |-> suffix = "2"]

Suffixes == {"", "'", "2"}

Moves == {parseMove(f, s) : f \in FaceNames, s \in Suffixes}

SuffixOf(move) ==
    IF move.double THEN "2" ELSE IF move.direction = -1 THEN "'" ELSE ""

\* the store's applyMoveToState and applyInverseMoveToState
applyMoveToState(store, move) ==
    [store EXCEPT !.cubies =
        rotateFace(store.cubies, move.face,
                   IF move.double THEN 2 ELSE move.direction)]

\* mutant: the direction is not reversed
applyInverseMoveToStateForward(store, move) ==
    [store EXCEPT !.cubies =
        rotateFace(store.cubies, move.face,
                   IF move.double THEN 2 ELSE move.direction)]

applyInverseMoveToState(store, move) ==
    [store EXCEPT !.cubies =
        rotateFace(store.cubies, move.face,
                   IF move.double THEN 2 ELSE -move.direction)]

setCubies(store, cubies) == [store EXCEPT !.cubies = cubies]

setInitialCubies(store, cubies) == [store EXCEPT !.initialCubies = cubies]

(***************************************************************************)
(* The reference cube.  cubejs keeps a cube as the corner and edge cubies  *)
(* at each corner and edge position with their orientations; a face move   *)
(* is a multiplication by the move's cube, and asString writes the facelet *)
(* string from the corner and edge facelet tables.                         *)
(***************************************************************************)

CornerNames == <<"URF", "UFL", "ULB", "UBR", "DFR", "DLF", "DBL", "DRB">>

EdgeNames == <<"UR", "UF", "UL", "UB", "DR", "DF", "DL", "DB",
               "FR", "FL", "BL", "BR">>

\* facelet k (1..9) of a face, as a position 1..54 of the facelet string
Facelet(face, k) ==
    9 * ((CHOOSE i \in 1..6 : KOCIEMBA_FACE_ORDER[i] = face) - 1) + k

cornerFacelet ==
    <<<<Facelet("U", 9), Facelet("R", 1), Facelet("F", 3)>>,
      <<Facelet("U", 7), Facelet("F", 1), Facelet("L", 3)>>,
      <<Facelet("U", 1), Facelet("L", 1), Facelet("B", 3)>>,
      <<Facelet("U", 3), Facelet("B", 1), Facelet("R", 3)>>,
      <<Facelet("D", 3), Facelet("F", 9), Facelet("R", 7)>>,
      <<Facelet("D", 1), Facelet("L", 9), Facelet("F", 7)>>,
      <<Facelet("D", 7), Facelet("B", 9), Facelet("L", 7)>>,
      <<Facelet("D", 9), Facelet("R", 9), Facelet("B", 7)>>>>

edgeFacelet ==
    <<<<Facelet("U", 6), Facelet("R", 2)>>, <<Facelet("U", 8), Facelet("F", 2)>>,
      <<Facelet("U", 4), Facelet("L", 2)>>, <<Facelet("U", 2), Facelet("B", 2)>>,
      <<Facelet("D", 6), Facelet("R", 8)>>, <<Facelet("D", 2), Facelet("F", 8)>>,
      <<Facelet("D", 4), Facelet("L", 8)>>, <<Facelet("D", 8), Facelet("B", 8)>>,
      <<Facelet("F", 6), Facelet("R", 4)>>, <<Facelet("F", 4), Facelet("L", 6)>>,
      <<Facelet("B", 6), Facelet("L", 4)>>, <<Facelet("B", 4), Facelet("R", 6)>>>>

\* the index of a corner or edge name
Corner(name) == CHOOSE i \in 1..8 : CornerNames[i] = name

Edge(name) == CHOOSE i \in 1..12 : EdgeNames[i] = name

\* a cube from the names of the cubies at the positions and their twists
CubieCube(cp, co, ep, eo) ==
    [cp |-> [i \in 1..8 |-> Corner(cp[i])], co |-> co,
     ep |-> [i \in 1..12 |-> Edge(ep[i])], eo |-> eo]

NoTwist == <<0, 0, 0, 0, 0, 0, 0, 0>>

NoFlip == <<0, 0, 0, 0, 0, 0, 0, 0, 0, 0, 0, 0>>

identityCube == CubieCube(CornerNames, NoTwist, EdgeNames, NoFlip)

\* the cubes of the six clockwise face turns
faceMoves ==
    [U |-> CubieCube(<<"UBR", "URF", "UFL", "ULB", "DFR", "DLF", "DBL", "DRB">>,
                     NoTwist,
                     <<"UB", "UR", "UF", "UL", "DR", "DF", "DL", "DB",
                       "FR", "FL", "BL", "BR">>,
                     NoFlip),
     R |-> CubieCube(<<"DFR", "UFL", "ULB", "URF", "DRB", "DLF", "DBL", "UBR">>,
                     <<2, 0, 0, 1, 1, 0, 0, 2>>,
                     <<"FR", "UF", "UL", "UB", "BR", "DF", "DL", "DB",
                       "DR", "FL", "BL", "UR">>,
                     NoFlip),
     F |-> CubieCube(<<"UFL", "DLF", "ULB", "UBR", "URF", "DFR", "DBL", "DRB">>,
                     <<1, 2, 0, 0, 2, 1, 0, 0>>,
                     <<"UR", "FL", "UL", "UB", "DR", "FR", "DL", "DB",
                       "UF", "DF", "BL", "BR">>,
                     <<0, 1, 0, 0, 0, 1, 0, 0, 1, 1, 0, 0>>),
     D |-> CubieCube(<<"URF", "UFL", "ULB", "UBR", "DLF", "DBL", "DRB", "DFR">>,
                     NoTwist,
                     <<"UR", "UF", "UL", "UB", "DF", "DL", "DB", "DR",
                       "FR", "FL", "BL", "BR">>,
                     NoFlip),
     L |-> CubieCube(<<"URF", "ULB", "DBL", "UBR", "DFR", "UFL", "DLF", "DRB">>,
                     <<0, 1, 2, 0, 0, 2, 1, 0>>,
                     <<"UR", "UF", "BL", "UB", "DR", "DF", "FL", "DB",
                       "FR", "UL", "DL", "BR">>,
                     NoFlip),
     B |-> CubieCube(<<"URF", "UFL", "UBR", "DRB", "DFR", "DLF", "ULB", "DBL">>,
                     <<0, 0, 1, 2, 0, 0, 2, 1>>,
                     <<"UR", "UF", "UL", "BR", "DR", "DF", "DL", "BL",
                       "FR", "FL", "UB", "DB">>,
                     <<0, 0, 0, 1, 0, 0, 0, 1, 0, 0, 1, 1>>)]

\* the product of two cubes: position to receives what other brings there
\* from this
multiply(this, other) ==
    [cp |-> [to \in 1..8 |-> this.cp[other.cp[to]]],
     co |-> [to \in 1..8 |-> (this.co[other.cp[to]] + other.co[to]) % 3],
     ep |-> [to \in 1..12 |-> this.ep[other.ep[to]]],
     eo |-> [to \in 1..12 |-> (this.eo[other.ep[to]] + other.eo[to]) % 2]]

\* Cube.move of one move in notation face + suffix: "" once, "2" twice,
\* "'" three times
cubeMove(cube, face, suffix) ==
    LET m1 == multiply(cube, faceMoves[face])
        m2 == multiply(m1, faceMoves[face])
        m3 == multiply(m2, faceMoves[face])
    IN  IF suffix = "" THEN m1 ELSE IF suffix = "2" THEN m2 ELSE m3

cornerColor ==
    <<<<"U", "R", "F">>, <<"U", "F", "L">>, <<"U", "L", "B">>, <<"U", "B", "R">>,
      <<"D", "F", "R">>, <<"D", "L", "F">>, <<"D", "B", "L">>, <<"D", "R", "B">>>>

edgeColor ==
    <<<<"U", "R">>, <<"U", "F">>, <<"U", "L">>, <<"U", "B">>,
      <<"D", "R">>, <<"D", "F">>, <<"D", "L">>, <<"D", "B">>,
      <<"F", "R">>, <<"F", "L">>, <<"B", "L">>, <<"B", "R">>>>

\* asString: the centres, then for each corner and edge position the letters
\* of the cubie there, shifted by its orientation
asString(cube) ==
    [p \in 1..54 |->
        IF p % 9 = 5 THEN KOCIEMBA_FACE_ORDER[((p - 1) \div 9) + 1]
        ELSE IF \E i \in 1..8, n \in 0..2 :
                   cornerFacelet[i][((n + cube.co[i]) % 3) + 1] = p
        THEN LET at == CHOOSE at \in (1..8) \X (0..2) :
                          cornerFacelet[at[1]][((at[2] + cube.co[at[1]]) % 3) + 1] = p
             IN  cornerColor[cube.cp[at[1]]][at[2] + 1]
        ELSE LET at == CHOOSE at \in (1..12) \X (0..1) :
                          edgeFacelet[at[1]][((at[2] + cube.eo[at[1]]) % 2) + 1] = p
             IN  edgeColor[cube.ep[at[1]]][at[2] + 1]]

\* the colour of each face's centre under DEFAULT_CENTER_MAP
CenterColor(f) == CHOOSE c \in Colors : DEFAULT_CENTER_MAP[c] = f

SolvedFaces == [f \in FaceNames |-> [i \in 1..9 |-> CenterColor(f)]]

\* the faces of a solved cube after a clockwise turn of U: the top rows of
\* the four side faces move round
FacesAfterU ==
    LET top(f, from) == [i \in 1..9 |->
                            IF i <= 3 THEN CenterColor(from) ELSE CenterColor(f)]
    IN  [SolvedFaces EXCEPT !.F = top("F", "R"), !.L = top("L", "F"),
                            !.B = top("B", "L"), !.R = top("R", "B")]

\* the faces of a solved cube after a clockwise turn of F: the row or the
\* column next to F of the four faces around it moves round
FacesAfterF ==
    LET part(f, from, at) == [i \in 1..9 |->
                                IF i \in at THEN CenterColor(from) ELSE CenterColor(f)]
    IN  [SolvedFaces EXCEPT !.U = part("U", "L", {7, 8, 9}),
                            !.R = part("R", "U", {1, 4, 7}),
                            !.D = part("D", "R", {1, 2, 3}),
                            !.L = part("L", "D", {3, 6, 9})]

FaceInputs == {SolvedFaces, FacesAfterU, FacesAfterF}

MaxMoves == 2

InitCube ==
    /\ InitRefs
    /\ cubeStore = initialState
    /\ votingBufferRef = NewFrameVotingBuffer(15, 7, 10)
    /\ \E faces \in FaceInputs :
          obs = [op |-> "faces", faces |-> faces, moves |-> 0,
                 last |-> parseMove("U", ""), reference |-> identityCube]

\* the solver screen's mount effect: generateCubies, assignColorsFromFaces,
\* setCubies, setInitialCubies
LoadCubies ==
    /\ obs.op = "faces"
    /\ solverStore' =
          LET colored == assignColorsFromFaces(generateCubies, obs.faces)
          IN  setInitialCubies(setCubies(solverStore, colored), colored)
    /\ obs' = [obs EXCEPT !.op = "loaded"]
    /\ UNCHANGED <<now, lastCornersRef, stableStartRef, cooldownRef, rafRef, mats,
                   lockedCornersRef, lockFailCountRef, lastFrameColorsRef,
                   scannerStore, cubeStore, votingBufferRef, solver, player, camera>>

\* one move applied to the store's cubies and the move of the same name to
\* the reference cube
ApplyMove(move) ==
    /\ obs.op \in {"loaded", "moved"}
    /\ obs.moves < MaxMoves
    /\ solverStore' = applyMoveToState(solverStore, move)
    /\ obs' = [obs EXCEPT !.op = "moved", !.moves = @ + 1, !.last = move,
                 !.reference = cubeMove(obs.reference, move.face, SuffixOf(move))]
    /\ UNCHANGED <<now, lastCornersRef, stableStartRef, cooldownRef, rafRef, mats,
                   lockedCornersRef, lockFailCountRef, lastFrameColorsRef,
                   scannerStore, cubeStore, votingBufferRef, solver, player, camera>>

NextCube == LoadCubies \/ \E move \in Moves : ApplyMove(move)

SpecCube == InitCube /\ [][NextCube]_vars

\* C23: after any sequence of moves applied to the solved cube, the facelet
\* string read from the cubies equals the reference cube's facelet string
\* after the moves of the same names
C23_RotateFaceMatchesReference ==
    obs.op = "moved" /\ obs.faces = SolvedFaces =>
        buildKociembaStringFromCubies(solverStore.cubies) = asString(obs.reference)

\* a counter-clockwise turn after another move, with a string that is not
\* the solved one
C23_Witness ==
    /\ obs.op = "moved" /\ obs.faces = SolvedFaces /\ obs.moves = 2
    /\ obs.last = parseMove("B", "'")
    /\ buildKociembaStringFromCubies(solverStore.cubies) = asString(obs.reference)
    /\ asString(obs.reference) # asString(identityCube)

\* C24: the faces read back from the cubies built from six faces, in the
\* facelet order of the solver string, are the six faces; six uniform faces
\* give the solved facelet string
C24_FacesRoundTrip ==
    obs.op = "loaded" =>
        /\ \A f \in FaceNames :
              /\ faceStickers(solverStore.cubies, f) = obs.faces[f]
              /\ editorStickers(solverStore.cubies, f) = obs.faces[f]
        /\ obs.faces = SolvedFaces =>
              buildKociembaStringFromCubies(solverStore.cubies)
                  = [p \in 1..54 |-> KOCIEMBA_FACE_ORDER[((p - 1) \div 9) + 1]]

\* RubiksCube's getAxis and getLayer
getAxis(face) ==
    IF face \in {"R", "L"} THEN "x" ELSE IF face \in {"U", "D"} THEN "y" ELSE "z"

getLayer(face) == IF face \in {"R", "U", "F"} THEN 1 ELSE -1

\* getAngle with the same sign for every face
getAngleOneSign(move) == -1 * move.direction * (IF move.double THEN 2 ELSE 1)

\* getAngle, in quarter turns (units of PI / 2)
getAngle(move) ==
    LET sign == IF move.face \in {"R", "U", "F"} THEN -1 ELSE 1
        multiplier == IF move.double THEN 2 ELSE 1
    IN  sign * move.direction * multiplier

\* cosine and sine of q quarter turns
CosQ(q) == <<1, 0, -1, 0>>[(q % 4) + 1]

SinQ(q) == <<0, 1, 0, -1>>[(q % 4) + 1]

\* the rotation of the group about an axis by q quarter turns, applied to a
\* grid position
applyRot(axis, p, q) ==
    LET c == CosQ(q)
        s == SinQ(q)
    IN  IF axis = "x" THEN Pos(p.x, p.y * c - p.z * s, p.y * s + p.z * c)
        ELSE IF axis = "y" THEN Pos(p.x * c + p.z * s, p.y, -p.x * s + p.z * c)
        ELSE Pos(p.x * c - p.y * s, p.x * s + p.y * c, p.z)

\* where the animation of a move leaves the cubie at position p: the cubies
\* of the face's layer turn with the group, the others stay
animatedPosition(move, p) ==
    IF p[getAxis(move.face)] = getLayer(move.face)
    THEN applyRot(getAxis(move.face), p, getAngle(move))
    ELSE p

ClockwiseQuarter(move) == move.direction = 1 /\ ~move.double

\* C25: for a clockwise quarter turn of any face, the rotation of a cubie of
\* the face's layer about the face's axis by getAngle lands it on the grid
\* position rotateFace gives it
C25_AnimationMatchesRotateFace ==
    [][obs'.op = "moved" /\ ClockwiseQuarter(obs'.last) =>
          \A k \in 1..Len(solverStore.cubies) :
              animatedPosition(obs'.last, solverStore.cubies[k].position)
                  = solverStore'.cubies[k].position]_vars

\* a clockwise quarter turn of a face on the negative side of its axis has
\* moved the cubie that was at the left-top-back corner, as the animation does
C25_Witness ==
    /\ obs.op = "moved" /\ obs.moves = 1 /\ obs.last = parseMove("L", "")
    /\ \E k \in 1..Len(solverStore.cubies) :
          /\ solverStore.initialCubies[k].position = Pos(-1, 1, -1)
          /\ solverStore.cubies[k].position = Pos(-1, 1, 1)
          /\ animatedPosition(obs.last, Pos(-1, 1, -1)) = Pos(-1, 1, 1)

(***************************************************************************)
(* SpecSolve: lib/solver.ts.  solveCubeAsync runs to its first await in    *)
(* one step (SolveCall) and from one await to the next or to its end in    *)
(* one step (SolveResume); skipOptimization may be called between the      *)
(* steps.  The cubejs solver is outside the program: each of its calls     *)
(* answers with a solution, with null or with an exception.  obs records   *)
(* the last step: the call's input, the number of cubejs calls it made,    *)
(* whether it tried a depth, and the solves that were awaiting when        *)
(* skipOptimization was called (skipped).                                  *)
(***************************************************************************)

setSolution(store, steps, solutionStr) ==
    [store EXCEPT !.solution = steps, !.solutionString = solutionStr,
                  !.solveError = "", !.solveStatus = ""]

setSolveError(store, error) ==
    [store EXCEPT !.solveError = error, !.solveStatus = ""]

setSolveStatus(store, status) == [store EXCEPT !.solveStatus = status]

\* a solution string is modelled by the sequence of its moves; parseSolution
\* gives one step per move
parseSolution(solutionString) == solutionString

\* best.trim().split(/\s+/).length of a solution of at least one move
MoveCount(solutionString) == Len(solutionString)

\* the solutions the cubejs solver may return, for a cube two moves from solved
SolutionPool ==
    {<<parseMove("U", "2"), parseMove("U", ""), parseMove("F", "'")>>,
     <<parseMove("U", "'"), parseMove("F", "'")>>}

NoAnswer(kind) == [kind |-> kind, sol |-> <<>>]

\* the answers of cube.solve() and of cube.solve(depth)
Answers ==
    {[kind |-> "solution", sol |-> s] : s \in SolutionPool}
        \cup {NoAnswer("null"), NoAnswer("throws")}

AnswersWithin(depth) ==
    {a \in Answers : a.kind = "solution" => MoveCount(a.sol) <= depth}

\* solveCubeAsync without the checks of the input
solveInputErrorNone(initialized, kociembaString) == ""

\* the error solveCubeAsync throws before any work, "" when it throws none
solveInputError(initialized, kociembaString) ==
    IF ~initialized THEN "Solver not initialized"
    ELSE IF kociembaString = Null \/ Len(kociembaString) # 54
    THEN "Invalid Kociemba string length"
    ELSE IF \E i \in 1..54 : kociembaString[i] \notin {"U", "R", "F", "D", "L", "B"}
    THEN "Invalid character"
    ELSE IF \E ch \in {kociembaString[i] : i \in 1..54} :
               Cardinality({i \in 1..54 : kociembaString[i] = ch}) # 9
    THEN "Face appears count times"
    ELSE ""

\* one call of solveCubeAsync in progress or ended
Solve(phase, depth, maxOptimizeDepth, best, error) ==
    [phase |-> phase, depth |-> depth, maxOptimizeDepth |-> maxOptimizeDepth,
     best |-> best, error |-> error]

Rejected(error) == Solve("rejected", 0, 0, <<>>, error)

OPTIMIZE_DEPTH_CAP == 10

\* solveCubeAsync from the call to its first await, its return or its throw;
\* answer is what cube.solve() gives.  calls counts the calls of cubejs.
solveCubeAsyncStart(sv, store, kociembaString, answer) ==
    LET error == solveInputError(sv.initialized, kociembaString)
        finding == setSolveStatus(store, "Finding initial solution...")
        best == answer.sol
        bestLen == MoveCount(best)
        found == setSolveStatus(setSolution(finding, parseSolution(best), best),
                                "Found solution, optimizing...")
        maxOptimizeDepth == IF bestLen - 1 < OPTIMIZE_DEPTH_CAP
                            THEN bestLen - 1 ELSE OPTIMIZE_DEPTH_CAP
    IN  IF error # ""
        THEN [solver |-> [sv EXCEPT !.solves = Append(@, Rejected(error))],
              store |-> store, calls |-> 0]
        ELSE IF answer.kind = "throws"
        THEN [solver |-> [sv EXCEPT !.solves = Append(@, Rejected("solve failed"))],
              store |-> finding, calls |-> 2]
        ELSE IF answer.kind = "null"
        THEN [solver |-> [sv EXCEPT !.solves = Append(@, Rejected("No solution found"))],
              store |-> finding, calls |-> 2]
        ELSE IF maxOptimizeDepth < 1
        THEN [solver |-> [sv EXCEPT !.skipOptimizationFlag = FALSE,
                             !.solves = Append(@, Solve("resolved", 1, maxOptimizeDepth,
                                                        best, ""))],
              store |-> setSolveStatus(found, ""), calls |-> 2]
        ELSE [solver |-> [sv EXCEPT !.skipOptimizationFlag = FALSE,
                             !.solves = Append(@, Solve("await", 1, maxOptimizeDepth,
                                                        best, ""))],
              store |-> found, calls |-> 2]

\* solve i from the await of its loop to the next await or to its return;
\* answer is what cube.solve(depth) gives.  tried tells whether it was called.
solveCubeAsyncResume(sv, store, i, answer) ==
    LET a == sv.solves[i]
        trying == setSolveStatus(store, "Optimizing...")
        shorter == answer.kind = "solution" /\ MoveCount(answer.sol) < MoveCount(a.best)
        best == IF shorter THEN answer.sol ELSE a.best
        published == IF shorter THEN setSolution(trying, parseSolution(best), best)
                     ELSE trying
    IN  IF sv.skipOptimizationFlag
        THEN [solver |-> [sv EXCEPT !.solves[i].phase = "resolved"],
              store |-> setSolveStatus(store, ""), tried |-> FALSE]
        ELSE IF answer.kind = "solution" \/ a.depth + 1 > a.maxOptimizeDepth
        THEN [solver |-> [sv EXCEPT !.solves[i].phase = "resolved",
                                    !.solves[i].best = best],
              store |-> setSolveStatus(published, ""), tried |-> TRUE]
        ELSE [solver |-> [sv EXCEPT !.solves[i].depth = @ + 1],
              store |-> trying, tried |-> TRUE]

skipOptimization(sv) == [sv EXCEPT !.skipOptimizationFlag = TRUE]

\* the facelet string of a cube two moves from solved
ScrambledString == asString(cubeMove(cubeMove(identityCube, "F", ""), "U", ""))

SolvedString == asString(identityCube)

\* strings solveCubeAsync is called with: two well-formed ones, null, one
\* character short, one long, a foreign character, U 8 times and R 10 times,
\* and no B at all
StringInputs ==
    {ScrambledString, SolvedString, Null,
     SubSeq(SolvedString, 1, 53),
     Append(SolvedString, "B"),
     [SolvedString EXCEPT ![20] = "X"],
     [SolvedString EXCEPT ![1] = "R"],
     [p \in 1..54 |-> IF SolvedString[p] = "B" THEN "R" ELSE SolvedString[p]]}

MaxSolves == 2

InitSolve ==
    /\ InitRefs
    /\ cubeStore = initialState
    /\ votingBufferRef = NewFrameVotingBuffer(15, 7, 10)
    /\ obs = [op |-> "load", input |-> Null, solve |-> 0, calls |-> 0,
              tried |-> FALSE, skipped |-> {}]

UnchangedBySolve ==
    UNCHANGED <<now, lastCornersRef, stableStartRef, cooldownRef, rafRef, mats,
                lockedCornersRef, lockFailCountRef, lastFrameColorsRef,
                scannerStore, cubeStore, votingBufferRef, player, camera>>

\* initSolver
InitSolver ==
    /\ ~solver.initialized
    /\ solver' = [solver EXCEPT !.initialized = TRUE]
    /\ obs' = [obs EXCEPT !.op = "init"]
    /\ UNCHANGED solverStore
    /\ UnchangedBySolve

SolveCall(kociembaString, answer) ==
    /\ Len(solver.solves) < MaxSolves
    /\ LET r == solveCubeAsyncStart(solver, solverStore, kociembaString, answer)
       IN  /\ solver' = r.solver
           /\ solverStore' = r.store
           /\ obs' = [obs EXCEPT !.op = "call", !.input = kociembaString,
                                 !.solve = Len(solver.solves) + 1,
                                 !.calls = r.calls, !.tried = FALSE]
    /\ UnchangedBySolve

SolveResume(i, answer) ==
    /\ i \in 1..Len(solver.solves)
    /\ solver.solves[i].phase = "await"
    /\ answer \in AnswersWithin(solver.solves[i].depth)
    /\ LET r == solveCubeAsyncResume(solver, solverStore, i, answer)
       IN  /\ solver' = r.solver
           /\ solverStore' = r.store
           /\ obs' = [obs EXCEPT !.op = "resume", !.solve = i,
                                 !.calls = IF r.tried THEN 1 ELSE 0,
                                 !.tried = r.tried]
    /\ UnchangedBySolve

\* the Skip button, shown while there is a status and no error
Skip ==
    /\ solverStore.solveStatus # "" /\ solverStore.solveError = ""
    /\ solver' = skipOptimization(solver)
    /\ obs' = [obs EXCEPT !.op = "skip",
                 !.skipped = @ \cup {i \in 1..Len(solver.solves) :
                                        solver.solves[i].phase = "await"}]
    /\ UNCHANGED solverStore
    /\ UnchangedBySolve

NextSolve ==
    \/ InitSolver
    \/ \E s \in StringInputs, answer \in Answers : SolveCall(s, answer)
    \/ \E i \in 1..MaxSolves, answer \in Answers : SolveResume(i, answer)
    \/ Skip

SpecSolve == InitSolve /\ [][NextSolve]_vars

\* the malformed inputs of the claim, by its words
Malformed(initialized, s) ==
    \/ ~initialized
    \/ s = Null
    \/ Len(s) # 54
    \/ \E i \in 1..Len(s) : s[i] \notin FaceNames
    \/ \E f \in FaceNames : Cardinality({i \in 1..Len(s) : s[i] = f}) # 9

\* C26: a call of solveCubeAsync that finds the solver not initialized or the
\* string malformed fails with an error, calls the cubejs solver not once and
\* leaves the solver store as it was
C26_MalformedInputRejected ==
    [][obs'.op = "call" /\ Malformed(solver.initialized, obs'.input) =>
          /\ solver'.solves[obs'.solve].phase = "rejected"
          /\ solver'.solves[obs'.solve].error # ""
          /\ obs'.calls = 0
          /\ solverStore' = solverStore]_vars

\* a string with U 8 times and R 10 times was rejected by an initialized
\* solver while the store held the solution of an earlier solve
C26_Witness ==
    /\ obs.op = "call" /\ solver.initialized
    /\ obs.input = [SolvedString EXCEPT ![1] = "R"]
    /\ solver.solves[obs.solve].phase = "rejected"
    /\ obs.calls = 0
    /\ solverStore.solution # <<>>

\* C27: a solve that was awaiting in its optimization loop when
\* skipOptimization was called tries no further depth: its next step ends it
\* with solveStatus null and with the best solution it had found, which is the
\* solution the store holds
C27_SkipEndsOptimization ==
    [][\A i \in obs.skipped :
          obs'.op = "resume" /\ obs'.solve = i =>
              /\ ~obs'.tried
              /\ solver'.solves[i].phase = "resolved"
              /\ solver'.solves[i].best = solver.solves[i].best
              /\ solverStore'.solveStatus = ""
              /\ solverStore'.solutionString = solver'.solves[i].best]_vars

(***************************************************************************)
(* SpecClassify: classifyFace called frame after frame by the scanner,     *)
(* each result added to the voting buffer and kept as the last frame's     *)
(* colours.  A sample stands for an RGB triple and is given by its six     *)
(* CIEDE2000 distances to COLOR_REFS (integers here).  obs keeps the last  *)
(* call's samples and colours and those of the first call.                 *)
(***************************************************************************)

\* classifySingle: the first reference with the smallest distance, W when no
\* distance is below Infinity
classifySingle(dists) ==
    LET best == {i \in 1..Len(dists) : \A j \in 1..Len(dists) :
                    dists[i] < dists[j] \/ (dists[i] = dists[j] /\ i <= j)}
    IN  [color |-> IF best = {} THEN "W" ELSE ColorOrder[CHOOSE i \in best : TRUE],
         dists |-> dists]

\* a classifier that leaves out the confusable pairs while the voting buffer
\* holds fewer than 2 frames
classifyFaceWarmUp(pipeline, rgbs) ==
    LET items == [i \in 1..Len(rgbs) |-> classifySingle(rgbs[i])]
        ro == resolveConfusablePair(items, "R", "O")
    IN  [i \in 1..Len(rgbs) |->
            IF Len(pipeline.votingBufferRef.buffer) < 2 THEN items[i].color
            ELSE ro[i].color]

\* classifyFace: classifySingle per sample, then the three confusable pairs.
\* pipeline is the scanner state at the call (voting buffer, last frame's
\* colours, scanned faces); the function reads none of it.
classifyFace(pipeline, rgbs) ==
    LET items == [i \in 1..Len(rgbs) |-> classifySingle(rgbs[i])]
        wy == resolveConfusablePair(items, "W", "Y")
        ro == resolveConfusablePair(wy, "R", "O")
        oy == resolveConfusablePair(ro, "O", "Y")
    IN  [i \in 1..Len(rgbs) |-> oy[i].color]

\* samples: orange near red, red near orange, yellow near white, green
SampleOrange == <<3, 2, FarDist, FarDist, FarDist, FarDist>>

SampleRedder == <<2, 3, FarDist, FarDist, FarDist, FarDist>>

SampleYellow == <<FarDist, FarDist, 2, FarDist, FarDist, 3>>

SampleGreen == <<FarDist, FarDist, FarDist, 0, FarDist, FarDist>>

SamplePool == {SampleOrange, SampleRedder, SampleYellow}

\* faces of 9 samples: green but for the last two stickers
SampleFaces ==
    {[i \in 1..9 |-> IF i = 8 THEN a ELSE IF i = 9 THEN b ELSE SampleGreen] :
        a \in SamplePool, b \in SamplePool}

MaxClassify == 3

InitClassify ==
    /\ InitRefs
    /\ cubeStore = initialState
    /\ votingBufferRef = NewFrameVotingBuffer(15, 7, 10)
    /\ obs = [op |-> "start", calls |-> 0, rgbs |-> <<>>, ret |-> <<>>,
              firstRgbs |-> <<>>, firstRet |-> <<>>]

\* one frame: classifyFace on the samples, the colours into the voting buffer
\* and lastFrameColorsRef
ClassifyFrame(rgbs) ==
    /\ obs.calls < MaxClassify
    /\ LET pipeline == [votingBufferRef |-> votingBufferRef,
                        lastFrameColorsRef |-> lastFrameColorsRef,
                        cubeStore |-> cubeStore]
           colors == classifyFace(pipeline, rgbs)
       IN  /\ votingBufferRef' = addFrame(votingBufferRef, colors).fvb
           /\ lastFrameColorsRef' = colors
           /\ obs' = [op |-> "classifyFace", calls |-> obs.calls + 1,
                      rgbs |-> rgbs, ret |-> colors,
                      firstRgbs |-> IF obs.calls = 0 THEN rgbs ELSE obs.firstRgbs,
                      firstRet |-> IF obs.calls = 0 THEN colors ELSE obs.firstRet]
    /\ UNCHANGED <<now, lastCornersRef, stableStartRef, cooldownRef, rafRef, mats,
                   lockedCornersRef, lockFailCountRef, scannerStore, cubeStore,
                   solverStore, solver, player, camera>>

NextClassify == \E rgbs \in SampleFaces : ClassifyFrame(rgbs)

SpecClassify == InitClassify /\ [][NextClassify]_vars

play(store) == [store EXCEPT !.isPlaying = TRUE]

pause(store) == [store EXCEPT !.isPlaying = FALSE]

nextStep(store) ==
    IF store.currentStep < Len(store.solution)
    THEN [store EXCEPT !.currentStep = @ + 1] ELSE store

prevStep(store) ==
    IF store.currentStep > 0 THEN [store EXCEPT !.currentStep = @ - 1] ELSE store

resetToStart(store) ==
    [store EXCEPT !.currentStep = 0, !.isPlaying = FALSE,
                  !.cubies = store.initialCubies]

setIsAnimating(store, animating) == [store EXCEPT !.isAnimating = animating]

\* the store and the refs of the screen after a step
Screen(store, pl) == [store |-> store, player |-> pl]

\* the auto-play effect: playingRef follows isPlaying when isPlaying changed
PlayingEffect(before, s) ==
    IF s.store.isPlaying # before.isPlaying
    THEN Screen(s.store, [s.player EXCEPT !.playingRef = s.store.isPlaying])
    ELSE s

\* the callback given to animateMove(...).then: of playNextMove ("play") or
\* of handleNext ("next")
thenOfAnimateMove(store, pl, kind, stepSnapshot) ==
    IF kind = "play"
    THEN Screen(nextStep(store), [pl EXCEPT !.playRaf = pl.playingRef])
    ELSE IF store.currentStep = stepSnapshot
    THEN Screen(nextStep(store), pl)
    ELSE Screen(store, pl)

\* RubiksCube's animateMove followed by .then(callback)
animateMove(store, pl, move, kind, stepSnapshot) ==
    IF pl.rotationRef # Null
    THEN thenOfAnimateMove(store, pl, kind, stepSnapshot)
    ELSE Screen(setIsAnimating(store, TRUE),
                [pl EXCEPT !.rotationRef =
                    <<[move |-> move, kind |-> kind, stepSnapshot |-> stepSnapshot]>>])

\* RubiksCube's cancelAnimation: the promise of the move in flight is dropped
cancelAnimation(store, pl) ==
    IF pl.rotationRef = Null THEN Screen(store, pl)
    ELSE Screen(setIsAnimating(store, FALSE), [pl EXCEPT !.rotationRef = Null])

playNextMove(store, pl) ==
    IF ~pl.playingRef \/ store.isAnimating THEN Screen(store, pl)
    ELSE IF store.currentStep >= Len(store.solution)
    THEN PlayingEffect(store, Screen(pause(store), pl))
    ELSE animateMove(store, pl, store.solution[store.currentStep + 1],
                     "play", store.currentStep)

handleNext(store, pl) ==
    IF store.isAnimating \/ store.currentStep >= Len(store.solution)
    THEN Screen(store, pl)
    ELSE animateMove(store, pl, store.solution[store.currentStep + 1],
                     "next", store.currentStep)

handlePrev(store, pl) ==
    LET c == IF store.isAnimating THEN cancelAnimation(store, pl)
             ELSE Screen(store, pl)
    IN  IF store.currentStep <= 0 THEN c
        \* solution[currentStep - 1] is undefined: reading its move throws
        ELSE IF store.currentStep > Len(store.solution) THEN c
        ELSE Screen(prevStep(applyInverseMoveToState(
                                c.store, store.solution[store.currentStep])),
                    c.player)

handleReset(store, pl) ==
    LET c == cancelAnimation(store, [pl EXCEPT !.playingRef = FALSE])
    IN  PlayingEffect(store, Screen(resetToStart(pause(c.store)), c.player))

\* the useFrame callback on the frame that completes the move in flight
completeRotation(store, pl) ==
    LET rot == pl.rotationRef[1]
    IN  thenOfAnimateMove(setIsAnimating(applyMoveToState(store, rot.move), FALSE),
                          [pl EXCEPT !.rotationRef = Null],
                          rot.kind, rot.stepSnapshot)

\* the callbacks of the mount effect on solveCubeAsync's promise
thenOfSolve(store, solve) ==
    IF solve.phase = "resolved"
    THEN setSolution(store, parseSolution(solve.best), solve.best)
    ELSE IF solve.phase = "rejected" THEN setSolveError(store, solve.error)
    ELSE store

\* the scanned faces that give a facelet string
FacesOfString(kociembaString) ==
    [f \in FaceNames |->
        [k \in 1..9 |-> CenterColor(kociembaString[Facelet(f, k)])]]

MaxClicks == 4

InitPlayback ==
    /\ InitRefs
    /\ cubeStore = initialState
    /\ votingBufferRef = NewFrameVotingBuffer(15, 7, 10)
    /\ obs = [op |-> "load", input |-> Null, solve |-> 0, calls |-> 0,
              tried |-> FALSE, skipped |-> {}, clicks |-> 0]

UnchangedByPlayback ==
    UNCHANGED <<now, lastCornersRef, stableStartRef, cooldownRef, rafRef, mats,
                lockedCornersRef, lockFailCountRef, lastFrameColorsRef,
                scannerStore, cubeStore, votingBufferRef, camera>>

\* the mount effect of the solver screen, shown once the solver is ready
Mount(answer) ==
    /\ solver.initialized /\ Len(solver.solves) = 0
    /\ LET colored == assignColorsFromFaces(generateCubies,
                                            FacesOfString(ScrambledString))
           loaded == setInitialCubies(
                        setCubies(setSolveError(solverStore, ""), colored), colored)
           r == solveCubeAsyncStart(solver, loaded, ScrambledString, answer)
       IN  /\ solver' = r.solver
           /\ solverStore' = thenOfSolve(r.store, r.solver.solves[1])
           /\ obs' = [obs EXCEPT !.op = "mount", !.input = ScrambledString,
                                 !.solve = 1, !.calls = r.calls]
    /\ UNCHANGED player
    /\ UnchangedByPlayback

\* a step of the optimizer, and the mount effect's callback when it returns
Optimize(answer) ==
    /\ Len(solver.solves) = 1
    /\ solver.solves[1].phase = "await"
    /\ answer \in AnswersWithin(solver.solves[1].depth)
    /\ LET r == solveCubeAsyncResume(solver, solverStore, 1, answer)
       IN  /\ solver' = r.solver
           /\ solverStore' = thenOfSolve(r.store, r.solver.solves[1])
           /\ obs' = [obs EXCEPT !.op = "resume", !.solve = 1,
                                 !.calls = IF r.tried THEN 1 ELSE 0,
                                 !.tried = r.tried]
    /\ UNCHANGED player
    /\ UnchangedByPlayback

\* a step of the screen that leaves the solver alone
ScreenStep(op, s, clicks) ==
    /\ solverStore' = s.store
    /\ player' = s.player
    /\ obs' = [obs EXCEPT !.op = op, !.clicks = @ + clicks]
    /\ UNCHANGED solver
    /\ UnchangedByPlayback

AtStart == solverStore.currentStep = 0

AtEnd == solverStore.currentStep >= Len(solverStore.solution)

\* the Play/Pause button and the auto-play effect that follows it
PlayPause ==
    /\ obs.clicks < MaxClicks
    /\ ~(AtEnd /\ ~solverStore.isPlaying)
    /\ IF solverStore.isPlaying
       THEN ScreenStep("pause",
                       PlayingEffect(solverStore, Screen(pause(solverStore), player)), 1)
       ELSE LET s == PlayingEffect(solverStore, Screen(play(solverStore), player))
            IN  ScreenStep("play", playNextMove(s.store, s.player), 1)

HandleNext ==
    /\ obs.clicks < MaxClicks
    /\ ~(AtEnd \/ solverStore.isAnimating)
    /\ ScreenStep("next", handleNext(solverStore, player), 1)

HandlePrev ==
    /\ obs.clicks < MaxClicks
    /\ ~(AtStart \/ solverStore.isAnimating)
    /\ ScreenStep("prev", handlePrev(solverStore, player), 1)

HandleReset ==
    /\ obs.clicks < MaxClicks
    /\ ~(AtStart /\ ~solverStore.isPlaying)
    /\ ScreenStep("reset", handleReset(solverStore, player), 1)

\* the frame on which the move in flight reaches its target angle
AnimationComplete ==
    /\ player.rotationRef # Null
    /\ ScreenStep("complete", completeRotation(solverStore, player), 0)

\* the animation frame requested by playNextMove's callback
PlayFrame ==
    /\ player.playRaf
    /\ ScreenStep("frame",
                  playNextMove(solverStore, [player EXCEPT !.playRaf = FALSE]), 0)

NextPlayback ==
    \/ InitSolver
    \/ \E answer \in Answers : Mount(answer)
    \/ \E answer \in Answers : Optimize(answer)
    \/ Skip
    \/ PlayPause
    \/ HandleNext
    \/ HandlePrev
    \/ HandleReset
    \/ AnimationComplete
    \/ PlayFrame

SpecPlayback == InitPlayback /\ [][NextPlayback]_vars

\* the cubies after the first n moves of a solution
RECURSIVE cubiesAfter(_, _, _)
cubiesAfter(cubies, solution, n) ==
    IF n = 0 THEN cubies
    ELSE LET move == solution[n]
         IN  rotateFace(cubiesAfter(cubies, solution, n - 1), move.face,
                        IF move.double THEN 2 ELSE move.direction)

\* C29: whenever no move animation is in flight, the cubies are the initial
\* cubies with the first currentStep moves of the store's solution applied
C29_CubiesMatchStep ==
    ~solverStore.isAnimating =>
        /\ solverStore.currentStep <= Len(solverStore.solution)
        /\ solverStore.cubies =
              cubiesAfter(solverStore.initialCubies, solverStore.solution,
                          solverStore.currentStep)

(***************************************************************************)
(* SpecCapture: the auto-capture step of the scanner loop on stable frames *)
(* with consensus, one after the other: the voted face is validated,       *)
(* corrected against the faces the store holds and passed to the store.    *)
(* The faces the store holds are the ones earlier captures put there.      *)
(***************************************************************************)

\* number of captures in a run
MaxCaptures == 3

InitCapture ==
    /\ InitRefs
    /\ cubeStore = initialState
    /\ votingBufferRef = NewFrameVotingBuffer(15, 7, 10)
    /\ obs = [op |-> "init", outcome |-> "", voted |-> <<>>, passed |-> <<>>,
              faces |-> NoFaces, captures |-> 0]

\* a frame whose voted colours are votedColors, at a time when capture is due
CaptureFrame(votedColors) ==
    /\ obs.captures < MaxCaptures
    /\ LET r == Capture(cubeStore, Stickers(votedColors), votedColors, now)
       IN  /\ cubeStore' = r.cube
           /\ obs' = [op |-> "capture", outcome |-> r.outcome,
                      voted |-> VotedStickers(Stickers(votedColors), votedColors),
                      passed |-> r.passed, faces |-> cubeStore.faces,
                      captures |-> obs.captures + 1]
    /\ UNCHANGED <<scanRefs, votingBufferRef>>

\* the voted colours of the frames: the faces of FacePool and a face that
\* fails the checks
NextCapture == \E votedColors \in FacePool \cup {AllRed} : CaptureFrame(votedColors)

SpecCapture == InitCapture /\ [][NextCapture]_vars

\* C30: every sticker set the scanner passes to addScannedFace has 9 stickers
\* and passes validateFaceColors
C30_CommittedFacePassesChecks ==
    obs.op = "capture" /\ obs.outcome \in {"captured", "addfailed"} =>
        /\ Len(obs.passed) = 9
        /\ validateFaceColors(obs.passed).valid

\* C38: on every frame the scanner store's isStable flag is true exactly when
\* the reported stableMs is at least STABILITY_THRESHOLD_MS, the threshold of
\* the capture gate
C38_StableFlagAgreesWithGate ==
    obs.op = "frame" =>
        (scannerStore.isStable <=> scannerStore.stableMs >= STABILITY_THRESHOLD_MS)

\* C33: after any sequence of addScannedFace, setAllFaces, removeFace and
\* resetCube, scannedCount is the number of stored faces; isComplete implies
\* scannedCount = 6; isValid implies isComplete, six pairwise distinct centre
\* colours and every colour exactly 9 times over the 54 stickers; and
\* kociembaString is non-null exactly when isValid is true
C33_StoreInvariants ==
    LET faces == cubeStore.faces
        centers == {faces[f].stickers[Center].color : f \in DOMAIN faces}
        total == SumFaces(faces, 1, "W") + SumFaces(faces, 1, "Y")
                   + SumFaces(faces, 1, "R") + SumFaces(faces, 1, "O")
                   + SumFaces(faces, 1, "B") + SumFaces(faces, 1, "G")
    IN  /\ cubeStore.scannedCount = Cardinality(DOMAIN faces)
        /\ cubeStore.isComplete => cubeStore.scannedCount = 6
        /\ cubeStore.isValid =>
              /\ cubeStore.isComplete
              /\ Cardinality(centers) = 6
              /\ \A c \in Colors : SumFaces(faces, 1, c) = 9
              /\ total = 54
        /\ (cubeStore.kociembaString # Null) <=> cubeStore.isValid

\* a valid cube built face by face, the last face added by addScannedFace
\* after a face was removed from a valid cube
C33_Witness ==
    /\ obs.op = "addScannedFace" /\ obs.ret
    /\ cubeStore.isValid /\ cubeStore.isComplete
    /\ cubeStore.kociembaString # Null
    /\ cubeStore.scannedCount = 6

(***************************************************************************)
(* SpecOrder: orderCorners applied to four points of a small grid, in any  *)
(* order, with points that coincide or tie in x + y or x - y.              *)
(***************************************************************************)

\* largest coordinate of a corner
MaxCoord == 2

CornerInputs == [1..4 -> {Pt(x, y) : x \in 0..MaxCoord, y \in 0..MaxCoord}]

InitOrder ==
    /\ InitRefs
    /\ cubeStore = initialState
    /\ votingBufferRef = NewFrameVotingBuffer(15, 7, 10)
    /\ \E corners \in CornerInputs :
          obs = [op |-> "input", corners |-> corners, ret |-> <<>>]

OrderCall ==
    /\ obs.op = "input"
    /\ obs' = [obs EXCEPT !.op = "orderCorners", !.ret = orderCorners(obs.corners)]
    /\ UNCHANGED <<scanRefs, cubeStore, votingBufferRef>>

NextOrder == OrderCall

SpecOrder == InitOrder /\ [][NextOrder]_vars

\* how often a point occurs in a list of points
PointCount(points, p) == Cardinality({i \in DOMAIN points : points[i] = p})

\* C37: orderCorners returns a permutation of its four input points in which
\* element 0 has the minimal x+y, element 2 has the maximal x+y, and of the
\* two remaining points the one with the larger x-y is element 1 and the
\* other is element 3
C37_OrderCornersCanonical ==
    obs.op = "orderCorners" =>
        /\ Len(obs.ret) = 4
        /\ \A i \in 1..4 :
              /\ PointCount(obs.ret, obs.corners[i]) = PointCount(obs.corners, obs.corners[i])
              /\ obs.ret[1].x + obs.ret[1].y <= obs.corners[i].x + obs.corners[i].y
              /\ obs.ret[3].x + obs.ret[3].y >= obs.corners[i].x + obs.corners[i].y
        /\ obs.ret[2].x - obs.ret[2].y >= obs.ret[4].x - obs.ret[4].y

\* a square listed from its bottom-right corner, anticlockwise: every point
\* moves, and the two middle points tie in x+y
C37_Witness ==
    /\ obs.op = "orderCorners"
    /\ obs.corners = <<Pt(2, 2), Pt(2, 0), Pt(0, 0), Pt(0, 2)>>
    /\ obs.ret = <<Pt(0, 0), Pt(2, 0), Pt(2, 2), Pt(0, 2)>>

\* C34: centerAnchoredCorrection returns exactly 9 stickers, never changes the
\* centre sticker or any sticker's rgb, changes a colour only from a colour
\* counted more than 9 times to a colour counted fewer than 9 times that forms
\* a confusable pair with it, and returns its input when no colour is over 9
\* or none is under 9
C34_CorrectionTouchesOnlyWhatItMay ==
    obs.op = "centerAnchoredCorrection" =>
        LET counts == GlobalCounts(obs.stickers, obs.faces)
        IN  /\ Len(obs.ret) = 9
            /\ obs.ret[Center] = obs.stickers[Center]
            /\ \A i \in 1..9 :
                  /\ obs.ret[i].rgb = obs.stickers[i].rgb
                  /\ obs.ret[i].color # obs.stickers[i].color =>
                        /\ counts[obs.stickers[i].color] > PerColor
                        /\ counts[obs.ret[i].color] < PerColor
                        /\ {obs.stickers[i].color, obs.ret[i].color}
                              \in {{"R", "O"}, {"O", "Y"}, {"W", "Y"}}
            /\ (\A c \in Colors : counts[c] <= PerColor)
                  \/ (\A c \in Colors : counts[c] >= PerColor)
                  => obs.ret = obs.stickers

\* a correction of a face whose centre colour is over-counted: stickers around
\* the centre change, the centre stays
C34_Witness ==
    /\ obs.op = "centerAnchoredCorrection"
    /\ GlobalCounts(obs.stickers, obs.faces)[obs.stickers[Center].color] > PerColor
    /\ \E i \in 1..9 : /\ obs.stickers[i].color = obs.stickers[Center].color
                       /\ obs.ret[i].color # obs.stickers[i].color
    /\ obs.ret[Center] = obs.stickers[Center]

(***************************************************************************)
(* SpecUndo: the cubies under steps forward (applyMoveToState, as the      *)
(* animation applies a move) and steps back (applyInverseMoveToState of    *)
(* the move last applied, as handlePrev does).  obs keeps the cubies       *)
(* before the last step forward.                                           *)
(***************************************************************************)

\* number of steps forward in a run
MaxSteps == 2

InitUndo ==
    /\ InitRefs
    /\ cubeStore = initialState
    /\ votingBufferRef = NewFrameVotingBuffer(15, 7, 10)
    /\ \E faces \in FaceInputs :
          obs = [op |-> "faces", faces |-> faces, moves |-> 0,
                 last |-> parseMove("U", ""), before |-> <<>>]

StepForward(move) ==
    /\ obs.op \in {"loaded", "moved", "undone"}
    /\ obs.moves < MaxSteps
    /\ solverStore' = applyMoveToState(solverStore, move)
    /\ obs' = [obs EXCEPT !.op = "moved", !.moves = @ + 1, !.last = move,
                          !.before = solverStore.cubies]
    /\ UNCHANGED <<now, lastCornersRef, stableStartRef, cooldownRef, rafRef, mats,
                   lockedCornersRef, lockFailCountRef, lastFrameColorsRef,
                   scannerStore, cubeStore, votingBufferRef, solver, player, camera>>

StepBack ==
    /\ obs.op = "moved"
    /\ solverStore' = applyInverseMoveToState(solverStore, obs.last)
    /\ obs' = [obs EXCEPT !.op = "undone"]
    /\ UNCHANGED <<now, lastCornersRef, stableStartRef, cooldownRef, rafRef, mats,
                   lockedCornersRef, lockFailCountRef, lastFrameColorsRef,
                   scannerStore, cubeStore, votingBufferRef, solver, player, camera>>

NextUndo ==
    \/ LoadCubies
    \/ \E move \in Moves : StepForward(move)
    \/ StepBack

SpecUndo == InitUndo /\ [][NextUndo]_vars

\* C35: applyMoveToState(m) followed by applyInverseMoveToState(m) restores
\* the previous cubies, every cubie's position and colours, for each of the
\* 18 moves
C35_StepBackUndoesStepForward ==
    obs.op = "undone" => solverStore.cubies = obs.before

\* a counter-clockwise turn of R undone on a cube that is away from its
\* initial state
C35_Witness ==
    /\ obs.op = "undone"
    /\ obs.last = parseMove("R", "'")
    /\ obs.moves = 2
    /\ solverStore.cubies = obs.before
    /\ solverStore.cubies # solverStore.initialCubies

(***************************************************************************)
(* SpecCamera: the useCamera hook under ScannerScreen's camera effect.     *)
(* The effect calls start() when it runs and stop() when it is cleaned up. *)
(* start() runs to its first await in one step and from one await to the   *)
(* next, or to its end, in one step each: getUserMedia resolves with a new *)
(* stream or rejects, the can-play wait resolves, play() resolves or       *)
(* rejects.  Streams are numbered as acquired; live holds the streams      *)
(* whose tracks have not been stopped.                                     *)
(***************************************************************************)

\* stream.getTracks().forEach(t => t.stop())
stopTracks(cam, stream) == [cam EXCEPT !.live = @ \ {stream}]

\* stop()
stop(cam) ==
    LET stopped == IF cam.streamRef # 0
                   THEN [stopTracks(cam, cam.streamRef) EXCEPT !.streamRef = 0]
                   ELSE cam
        detached == IF stopped.videoRef
                    THEN [stopped EXCEPT !.srcObject = 0, !.videoRef = FALSE]
                    ELSE stopped
    IN  [detached EXCEPT !.abortRef = TRUE, !.ready = FALSE]

\* start() up to its await of getUserMedia
startCall(cam) ==
    LET stopped == IF cam.streamRef # 0
                   THEN [stopTracks(cam, cam.streamRef) EXCEPT !.streamRef = 0]
                   ELSE cam
    IN  [stopped EXCEPT !.abortRef = FALSE,
                        !.starts = Append(@, [phase |-> "getUserMedia", stream |-> 0])]

\* the catch block of start()
startCatch(cam, i) ==
    IF cam.abortRef THEN [cam EXCEPT !.starts[i].phase = "done"]
    ELSE [cam EXCEPT !.starts[i].phase = "done", !.error = "Camera access denied",
                     !.ready = FALSE]

\* start() from the await of getUserMedia to the can-play wait
startAfterGetUserMedia(cam, i, resolved) ==
    LET stream == cam.acquired + 1
        got == [cam EXCEPT !.acquired = stream, !.live = @ \cup {stream},
                           !.starts[i].stream = stream]
    IN  IF ~resolved THEN startCatch(cam, i)
        ELSE IF cam.abortRef
        THEN [stopTracks(got, stream) EXCEPT !.starts[i].phase = "done"]
        ELSE [got EXCEPT !.srcObject = stream, !.starts[i].phase = "canplay"]

\* start() from the can-play wait to the await of play()
startAfterCanPlay(cam, i) ==
    IF cam.abortRef
    THEN [stopTracks(cam, cam.starts[i].stream) EXCEPT
             !.srcObject = 0, !.starts[i].phase = "done"]
    ELSE [cam EXCEPT !.starts[i].phase = "play"]

\* start() from the await of play() to its end
startAfterPlay(cam, i, resolved) ==
    IF ~resolved THEN startCatch(cam, i)
    ELSE [cam EXCEPT !.videoRef = TRUE, !.streamRef = cam.starts[i].stream,
                     !.ready = TRUE, !.error = "", !.starts[i].phase = "done"]

\* number of times the camera effect runs
MaxStarts == 2

InitCamera ==
    /\ InitRefs
    /\ cubeStore = initialState
    /\ votingBufferRef = NewFrameVotingBuffer(15, 7, 10)
    /\ obs = [op |-> "render", mounted |-> FALSE, stops |-> 0]

UnchangedByCamera ==
    UNCHANGED <<now, lastCornersRef, stableStartRef, cooldownRef, rafRef, mats,
                lockedCornersRef, lockFailCountRef, lastFrameColorsRef,
                scannerStore, cubeStore, votingBufferRef, solverStore, solver,
                player>>

\* the camera effect runs: start(videoRef.current)
EffectStart ==
    /\ ~obs.mounted
    /\ Len(camera.starts) < MaxStarts
    /\ camera' = startCall(camera)
    /\ obs' = [obs EXCEPT !.op = "start", !.mounted = TRUE]
    /\ UnchangedByCamera

\* the camera effect is cleaned up: stop()
EffectStop ==
    /\ obs.mounted
    /\ camera' = stop(camera)
    /\ obs' = [obs EXCEPT !.op = "stop", !.mounted = FALSE, !.stops = 1]
    /\ UnchangedByCamera

GetUserMediaSettles(i, resolved) ==
    /\ i \in 1..Len(camera.starts)
    /\ camera.starts[i].phase = "getUserMedia"
    /\ camera' = startAfterGetUserMedia(camera, i, resolved)
    /\ obs' = [obs EXCEPT !.op = "getUserMedia"]
    /\ UnchangedByCamera

CanPlay(i) ==
    /\ i \in 1..Len(camera.starts)
    /\ camera.starts[i].phase = "canplay"
    /\ camera' = startAfterCanPlay(camera, i)
    /\ obs' = [obs EXCEPT !.op = "canplay"]
    /\ UnchangedByCamera

PlaySettles(i, resolved) ==
    /\ i \in 1..Len(camera.starts)
    /\ camera.starts[i].phase = "play"
    /\ camera' = startAfterPlay(camera, i, resolved)
    /\ obs' = [obs EXCEPT !.op = "play"]
    /\ UnchangedByCamera

NextCamera ==
    \/ EffectStart
    \/ EffectStop
    \/ \E i \in 1..MaxStarts, resolved \in BOOLEAN : GetUserMediaSettles(i, resolved)
    \/ \E i \in 1..MaxStarts : CanPlay(i)
    \/ \E i \in 1..MaxStarts, resolved \in BOOLEAN : PlaySettles(i, resolved)

SpecCamera == InitCamera /\ [][NextCamera]_vars

\* stop() was the last call of the effect and no start() is pending
CameraSettled ==
    /\ ~obs.mounted /\ obs.stops > 0
    /\ \A i \in 1..Len(camera.starts) : camera.starts[i].phase = "done"

\* C36: once a final stop() has been called and all pending start() calls
\* have settled, every stream that was acquired has had its tracks stopped
\* and ready is false
C36_NoStreamLeft ==
    CameraSettled => camera.live = {} /\ ~camera.ready

(***************************************************************************)
(* SpecLeave: the solver screen is entered (mount effect) and left again   *)
(* (App's handleBackToEditor or handleBackToScan, then the cleanup of the  *)
(* mount effect) while solveCubeAsync is in its optimization loop.  The    *)
(* loop of the cancelled call goes on; the effect's callbacks on its       *)
(* promise return at once.                                                 *)
(***************************************************************************)

\* useSolverStore's reset
reset(store) == initialSolverStore

\* number of times the solver screen is entered
MaxEnters == 2

InitLeave ==
    /\ InitRefs
    /\ cubeStore = initialState
    /\ votingBufferRef = NewFrameVotingBuffer(15, 7, 10)
    /\ obs = [op |-> "load", input |-> Null, solve |-> 0, calls |-> 0,
              tried |-> FALSE, skipped |-> {}, shown |-> FALSE, current |-> 0]

\* handleManualComplete shows the solver screen: its mount effect runs
EnterScreen(answer) ==
    /\ solver.initialized /\ ~obs.shown
    /\ Len(solver.solves) < MaxEnters
    /\ LET n == Len(solver.solves) + 1
           colored == assignColorsFromFaces(generateCubies,
                                            FacesOfString(ScrambledString))
           loaded == setInitialCubies(
                        setCubies(setSolveError(solverStore, ""), colored), colored)
           r == solveCubeAsyncStart(solver, loaded, ScrambledString, answer)
       IN  /\ solver' = r.solver
           /\ solverStore' = thenOfSolve(r.store, r.solver.solves[n])
           /\ obs' = [obs EXCEPT !.op = "mount", !.input = ScrambledString,
                                 !.solve = n, !.calls = r.calls,
                                 !.shown = TRUE, !.current = n]
    /\ UNCHANGED player
    /\ UnchangedByPlayback

\* handleBackToEditor or handleBackToScan: reset(), and the screen unmounts
LeaveScreen ==
    /\ obs.shown
    /\ solverStore' = reset(solverStore)
    /\ obs' = [obs EXCEPT !.op = "leave", !.shown = FALSE]
    /\ UNCHANGED <<solver, player>>
    /\ UnchangedByPlayback

\* a step of the optimizer of call i; the callbacks of the mount effect that
\* made the call run unless the effect was cleaned up
OptimizeStep(i, answer) ==
    /\ i \in 1..Len(solver.solves)
    /\ solver.solves[i].phase = "await"
    /\ answer \in AnswersWithin(solver.solves[i].depth)
    /\ LET r == solveCubeAsyncResume(solver, solverStore, i, answer)
       IN  /\ solver' = r.solver
           /\ solverStore' = IF obs.shown /\ i = obs.current
                             THEN thenOfSolve(r.store, r.solver.solves[i])
                             ELSE r.store
           /\ obs' = [obs EXCEPT !.op = "resume", !.solve = i,
                                 !.calls = IF r.tried THEN 1 ELSE 0,
                                 !.tried = r.tried]
    /\ UNCHANGED player
    /\ UnchangedByPlayback

\* the Skip button of the screen shown
SkipShown == obs.shown /\ Skip

NextLeave ==
    \/ InitSolver
    \/ \E answer \in Answers : EnterScreen(answer)
    \/ \E i \in 1..MaxEnters, answer \in Answers : OptimizeStep(i, answer)
    \/ SkipShown
    \/ LeaveScreen

SpecLeave == InitLeave /\ [][NextLeave]_vars

\* C32: once the solve effect has been cleaned up and reset() has run, the
\* store's solution stays empty and solveStatus stays null, even while the
\* optimization loop of the cancelled solveCubeAsync call is still running
C32_CancelledSolveWritesNothing ==
    ~obs.shown /\ obs.current > 0 =>
        /\ solverStore.solution = <<>>
        /\ solverStore.solveStatus = ""

(***************************************************************************)
(* SpecAutoplay: the solver screen with fair frames: the frame that        *)
(* completes the move in flight and the animation frame requested by       *)
(* playNextMove's callback come eventually.  The user's clicks and the     *)
(* optimizer's answers are not forced.                                     *)
(***************************************************************************)

SpecAutoplay ==
    /\ InitPlayback
    /\ [][NextPlayback]_vars
    /\ WF_vars(AnimationComplete)
    /\ WF_vars(PlayFrame)

\* auto-play is on at step k of a solution with more than k moves, after c
\* clicks
PlayingAt(k, c) ==
    /\ solverStore.isPlaying
    /\ solverStore.currentStep = k
    /\ k < Len(solverStore.solution)
    /\ obs.clicks = c

\* C31: whenever isPlaying is true and currentStep < solution.length, then
\* under fair frames and without further user input eventually currentStep
\* increases or isPlaying becomes false
C31_AutoplayProgress ==
    \A k \in 0..3, c \in 0..MaxClicks :
        PlayingAt(k, c) ~>
            \/ solverStore.currentStep > k
            \/ ~solverStore.isPlaying
            \/ obs.clicks # c

====
